---- MODULE Spec2Model ----
(***************************************************************************)
(* Stock-out / waste risk assessment of inventory_risk_check.py, the AI    *)
(* call of intelligence.py and the endpoints of main.py that use them.     *)
(*                                                                         *)
(* Quantities (demand, stock, forecast bounds) are Python floats in the    *)
(* source.  Here they are exact decimal fixed-point numbers: an integer n  *)
(* stands for n / 100000, so Cent (1000) is 0.01 and Milli (100) is 0.001. *)
(* The inputs range over the multiples of Step = 3.333, which are not      *)
(* whole hundredths, so that rounding is exercised.                        *)
(* Every round(x, 2) and every "{x:.2f}" of the source is Round2, which    *)
(* rounds to the nearest multiple of Cent (ties to even, as Python does).  *)
(* Binary floating-point representation error is not modelled.             *)
(***************************************************************************)
EXTENDS Integers, Sequences, FiniteSets, TLC

VARIABLES
    predicted_demand,        \* detect_stockout_risk: argument
    stock_levels,            \* detect_stockout_risk: current_stock of the 1st and 2nd call
    safety_buffer_percent,   \* argument of all three entry points
    detections,              \* results of the detect_stockout_risk calls made so far
    forecast_results,        \* check_inventory_risk: the forecasts, in order
    current_stock_df,        \* the dataset rows, in file order
    action_plans,            \* check_inventory_risk: "pending", then its return value
    items_to_forecast,       \* run_full_assessment: argument (None: the default items)
    dataset_found,           \* the dataset file exists at a searched location
    forecaster,              \* what the forecasting library does for each item
    run_result,              \* run_full_assessment: "pending", then its return value
    locations,               \* load_inventory_data: what is at each searched location
    load_result,             \* load_inventory_data: "pending", then what it returns or raises
    item_name,               \* get_prescriptive_json: argument
    surplus_kg,              \* get_prescriptive_json: argument
    gemini_response,         \* what the call of the AI service does
    prescriptive,            \* get_prescriptive_json: "pending", then its return value
    requested_item,          \* the endpoint requested: its path parameter or its name
    http_response,           \* "pending", then the response of the endpoint
    export_requests,         \* GET /export-assessment-csv: the requests in progress
    report_file,             \* the rows of data/inventory_risk_assessment.csv
    data_dir_writable        \* the report file can be opened for writing

vars == <<predicted_demand, stock_levels, safety_buffer_percent, detections,
          forecast_results, current_stock_df, action_plans,
          items_to_forecast, dataset_found, forecaster, run_result,
          locations, load_result,
          item_name, surplus_kg, gemini_response, prescriptive,
          requested_item, http_response,
          export_requests, report_file, data_dir_writable>>

detectVars == <<predicted_demand, stock_levels, detections>>
assessVars == <<forecast_results, current_stock_df, action_plans>>
runVars == <<items_to_forecast, dataset_found, forecaster, run_result>>
loadVars == <<locations, load_result>>
aiVars == <<item_name, surplus_kg, gemini_response, prescriptive>>
httpVars == <<requested_item, http_response>>
exportVars == <<export_requests, report_file, data_dir_writable>>

----------------------------------------------------------------------------
(* Fixed-point arithmetic *)

Cent == 1000
Milli == Cent \div 10
One == 100 * Cent

Max(a, b) == IF a >= b THEN a ELSE b
Min(a, b) == IF a <= b THEN a ELSE b

\* a / b (b > 0) rounded to the nearest integer, ties to the even neighbour
RoundDiv(a, b) ==
    LET q == a \div b
        r == a % b
    IN  IF 2 * r < b THEN q
        ELSE IF 2 * r > b THEN q + 1
        ELSE IF q % 2 = 0 THEN q ELSE q + 1

\* a mutation of Round2: truncation instead of rounding
Round2Truncating(x) == Cent * (x \div Cent)

\* round(x, 2)
Round2(x) == Cent * RoundDiv(x, Cent)

----------------------------------------------------------------------------
(* detect_stockout_risk *)

\* buffer_amount = predicted_demand * (safety_buffer_percent / 100)
\* (exact: every demand of the model is a multiple of Milli = 100)
BufferAmount(demand, percent) == (demand * percent) \div 100

DemandWithBuffer(demand, percent) == demand + BufferAmount(demand, percent)

UnitsNeeded(demand, stock, percent) ==
    Max(0, DemandWithBuffer(demand, percent) - stock)

\* a mutation of Classify: the two restock levels swapped
ClassifySwapped(demand, stock, percent) ==
    IF stock >= DemandWithBuffer(demand, percent)
    THEN [has_stockout_risk |-> FALSE, alert_level |-> "NONE"]
    ELSE IF stock >= demand
    THEN [has_stockout_risk |-> TRUE, alert_level |-> "CRITICAL"]
    ELSE [has_stockout_risk |-> TRUE, alert_level |-> "ALERT"]

\* a mutation of Classify: the buffered threshold compared strictly
ClassifyStrict(demand, stock, percent) ==
    IF stock > DemandWithBuffer(demand, percent)
    THEN [has_stockout_risk |-> FALSE, alert_level |-> "NONE"]
    ELSE IF stock >= demand
    THEN [has_stockout_risk |-> TRUE, alert_level |-> "ALERT"]
    ELSE [has_stockout_risk |-> TRUE, alert_level |-> "CRITICAL"]

\* the if / elif / else that sets has_stockout_risk and alert_level
Classify(demand, stock, percent) ==
    IF stock >= DemandWithBuffer(demand, percent)
    THEN [has_stockout_risk |-> FALSE, alert_level |-> "NONE"]
    ELSE IF stock >= demand
    THEN [has_stockout_risk |-> TRUE, alert_level |-> "ALERT"]
    ELSE [has_stockout_risk |-> TRUE, alert_level |-> "CRITICAL"]

\* the f-string of the branch taken: its fixed text and its formatted numbers
Message(demand, stock, percent) ==
    LET level == Classify(demand, stock, percent).alert_level
        cur == Round2(stock)
        req == Round2(DemandWithBuffer(demand, percent))
        need == Round2(UnitsNeeded(demand, stock, percent))
    IN  IF level = "NONE"
        THEN <<"Stock level sufficient", cur, req>>
        ELSE IF level = "ALERT"
        THEN <<"RESTOCK_ALERT", cur, percent, req, need>>
        ELSE <<"CRITICAL_RESTOCK_ALERT", cur, Round2(demand), req, need>>

\* a mutation of detect_stockout_risk: the units needed add up over the calls
DetectAccumulating(demand, stock, percent) ==
    [ has_stockout_risk  |-> Classify(demand, stock, percent).has_stockout_risk,
      alert_level        |-> Classify(demand, stock, percent).alert_level,
      predicted_demand   |-> Round2(demand),
      demand_with_buffer |-> Round2(DemandWithBuffer(demand, percent)),
      buffer_amount      |-> Round2(BufferAmount(demand, percent)),
      buffer_percent     |-> percent,
      current_stock      |-> Round2(stock),
      units_needed       |->
          Round2(UnitsNeeded(demand, stock, percent))
              + (IF detections = << >> THEN 0
                 ELSE detections[Len(detections)].units_needed),
      message            |-> Message(demand, stock, percent) ]

detect_stockout_risk(demand, stock, percent) ==
    [ has_stockout_risk  |-> Classify(demand, stock, percent).has_stockout_risk,
      alert_level        |-> Classify(demand, stock, percent).alert_level,
      predicted_demand   |-> Round2(demand),
      demand_with_buffer |-> Round2(DemandWithBuffer(demand, percent)),
      buffer_amount      |-> Round2(BufferAmount(demand, percent)),
      buffer_percent     |-> percent,
      current_stock      |-> Round2(stock),
      units_needed       |-> Round2(UnitsNeeded(demand, stock, percent)),
      message            |-> Message(demand, stock, percent) ]

----------------------------------------------------------------------------
(* predict_next_day_usage: the result built from the forecaster's output *)

\* the dictionary returned for yhat, yhat_upper, yhat_lower (the fields the
\* assessment reads)
ForecastResult(item, yhat, yhat_upper, yhat_lower) ==
    [ item_name       |-> item,
      predicted_value |-> Round2(yhat),
      upper_bound     |-> Round2(yhat_upper),
      lower_bound     |-> Round2(yhat_lower),
      confidence_interval_width |->
          Cent * RoundDiv(yhat_upper - yhat_lower, 2 * Cent) ]

----------------------------------------------------------------------------
(* check_inventory_risk *)

\* A value that is None, a list, or not there yet ("pending"), as a record, the
\* list being empty unless kind = "list"
NoneValue == [ kind |-> "None", list |-> << >> ]
ListValue(l) == [ kind |-> "list", list |-> l ]
Pending == [ kind |-> "pending", list |-> << >> ]

\* latest_stock[latest_stock['Item_Name'] == item_name] is not empty
HasStockRecord(df, item) == \E k \in 1..Len(df) : df[k].Item_Name = item

RECURSIVE InsertByDate(_, _)
\* the row put after the rows of the sorted list with no later Date
InsertByDate(row, sorted) ==
    IF sorted = << >> THEN <<row>>
    ELSE IF Head(sorted).Date <= row.Date
    THEN <<Head(sorted)>> \o InsertByDate(row, Tail(sorted))
    ELSE <<row>> \o sorted

RECURSIVE SortValuesByDate(_)
\* sort_values('Date'): the rows in ascending order of Date
SortValuesByDate(df) ==
    IF df = << >> THEN << >>
    ELSE InsertByDate(df[Len(df)], SortValuesByDate(SubSeq(df, 1, Len(df) - 1)))

\* groupby('Item_Name').last(): the last of the rows of the item
GroupByLast(df, item) ==
    LET rows == SelectSeq(df, LAMBDA r : r.Item_Name = item)
    IN  rows[Len(rows)]

\* a mutation of LatestStock: the rows are taken in file order
LatestStockInFileOrder(df, item) == GroupByLast(df, item).Current_Stock

\* latest_stock and stock_record['Current_Stock'].values[0]
LatestStock(df, item) == GroupByLast(SortValuesByDate(df), item).Current_Stock

\* a mutation of Surplus: measured from the predicted value
SurplusOverPrediction(stock, forecast) == Max(0, stock - forecast.predicted_value)

Surplus(stock, forecast) == Max(0, stock - forecast.upper_bound)

RiskLevel(stockout) ==
    IF stockout.alert_level = "CRITICAL" THEN "Critical"
    ELSE IF stockout.alert_level = "ALERT" THEN "Warning"
    ELSE "None"

Status(stockout) == IF stockout.has_stockout_risk THEN "RESTOCK" ELSE "OK"

\* a mutation of Shortfall: shortfall_critical is reported
ShortfallCritical(stockout, stock, forecast) ==
    IF stockout.has_stockout_risk
    THEN Max(0, forecast.predicted_value - stock)
    ELSE 0

Shortfall(stockout, stock, forecast) ==
    IF stockout.has_stockout_risk THEN stockout.units_needed ELSE 0

\* waste_ratio as the fraction <<numerator, denominator>>, denominator > 0
WasteRatio(stock, forecast) ==
    IF forecast.predicted_value > 0
    THEN <<stock, forecast.predicted_value>>
    ELSE <<0, 1>>

\* ratio > tenths / 10
RatioExceeds(ratio, tenths) == 10 * ratio[1] > tenths * ratio[2]

\* round(waste_ratio, 2)
RoundRatio2(ratio) == Cent * RoundDiv(100 * ratio[1], ratio[2])

\* a mutation of WasteRisk: the ratio is taken even when nothing is predicted
WasteRiskOfStock(stock, forecast) ==
    IF RatioExceeds(<<stock, Max(forecast.predicted_value, 1)>>, 20) THEN "High"
    ELSE IF RatioExceeds(<<stock, Max(forecast.predicted_value, 1)>>, 13) THEN "Moderate"
    ELSE "Low"

\* a mutation of WasteRisk: the stock is measured against the lower bound
WasteRiskOverLowerBound(stock, forecast) ==
    IF forecast.lower_bound > 0 /\ stock > 2 * forecast.lower_bound THEN "High"
    ELSE IF forecast.lower_bound > 0 /\ 10 * stock > 13 * forecast.lower_bound
    THEN "Moderate"
    ELSE "Low"

WasteRisk(stock, forecast) ==
    IF RatioExceeds(WasteRatio(stock, forecast), 20) THEN "High"
    ELSE IF RatioExceeds(WasteRatio(stock, forecast), 13) THEN "Moderate"
    ELSE "Low"

StockOutPoints(stock, forecast) ==
    IF stock < forecast.lower_bound THEN 50
    ELSE IF stock < forecast.predicted_value THEN 35
    ELSE IF stock < forecast.upper_bound THEN 20
    ELSE 0

WastePoints(stock, forecast) ==
    IF RatioExceeds(WasteRatio(stock, forecast), 20) THEN 40
    ELSE IF RatioExceeds(WasteRatio(stock, forecast), 15) THEN 25
    ELSE IF RatioExceeds(WasteRatio(stock, forecast), 13) THEN 15
    ELSE 0

\* a mutation of RiskScore: every branch that holds adds its points and the
\* total is not capped
RiskScoreAccumulating(stock, forecast) ==
      (IF stock < forecast.lower_bound THEN 50 ELSE 0)
    + (IF stock < forecast.predicted_value THEN 35 ELSE 0)
    + (IF stock < forecast.upper_bound THEN 20 ELSE 0)
    + (IF RatioExceeds(WasteRatio(stock, forecast), 20) THEN 40 ELSE 0)
    + (IF RatioExceeds(WasteRatio(stock, forecast), 15) THEN 25 ELSE 0)
    + (IF RatioExceeds(WasteRatio(stock, forecast), 13) THEN 15 ELSE 0)

\* a mutation of RiskScore: the 1.3 and 1.5 thresholds earn each other's points
RiskScoreSwappedPoints(stock, forecast) ==
    Min(100, StockOutPoints(stock, forecast)
             + (IF RatioExceeds(WasteRatio(stock, forecast), 20) THEN 40
                ELSE IF RatioExceeds(WasteRatio(stock, forecast), 15) THEN 15
                ELSE IF RatioExceeds(WasteRatio(stock, forecast), 13) THEN 25
                ELSE 0))

RiskScore(stock, forecast) ==
    Min(100, StockOutPoints(stock, forecast) + WastePoints(stock, forecast))

\* a mutation of RecommendedAction: the waste texts take priority
RecommendedActionWasteFirst(stockout, waste_risk, stock, forecast) ==
    IF waste_risk = "High"
    THEN <<"Review stock management", Round2(stock), Round2(forecast.predicted_value)>>
    ELSE IF waste_risk = "Moderate"
    THEN <<"Monitor usage patterns">>
    ELSE IF stockout.alert_level = "CRITICAL"
    THEN <<"CRITICAL_RESTOCK_ALERT", Round2(stockout.units_needed), Round2(stock),
           Round2(forecast.predicted_value), Round2(stockout.buffer_amount)>>
    ELSE IF stockout.alert_level = "ALERT"
    THEN <<"RESTOCK_ALERT", Round2(stockout.units_needed)>>
    ELSE <<"Continue current inventory management practices.">>

\* the f-string of the branch taken: its fixed text and its formatted numbers
RecommendedAction(stockout, waste_risk, stock, forecast) ==
    IF stockout.alert_level = "CRITICAL"
    THEN <<"CRITICAL_RESTOCK_ALERT", Round2(stockout.units_needed), Round2(stock),
           Round2(forecast.predicted_value), Round2(stockout.buffer_amount)>>
    ELSE IF stockout.alert_level = "ALERT"
    THEN <<"RESTOCK_ALERT", Round2(stockout.units_needed)>>
    ELSE IF waste_risk = "High"
    THEN <<"Review stock management", Round2(stock), Round2(forecast.predicted_value)>>
    ELSE IF waste_risk = "Moderate"
    THEN <<"Monitor usage patterns">>
    ELSE <<"Continue current inventory management practices.">>

ForecastConfidence(forecast) ==
    IF forecast.confidence_interval_width < 10 * One THEN "High"
    ELSE IF forecast.confidence_interval_width < 15 * One THEN "Medium"
    ELSE "Low"

\* the body of the loop for a forecast that has a stock record
ActionPlan(forecast, stock, percent) ==
    LET stockout == detect_stockout_risk(forecast.predicted_value, stock, percent)
        shortfall == Shortfall(stockout, stock, forecast)
        surplus == Surplus(stock, forecast)
        waste_risk == WasteRisk(stock, forecast)
        risk_score == RiskScore(stock, forecast)
    IN  [ item_name       |-> forecast.item_name,
          current_stock   |-> Round2(stock),
          predicted_value |-> forecast.predicted_value,
          upper_bound     |-> forecast.upper_bound,
          lower_bound     |-> forecast.lower_bound,
          status          |-> Status(stockout),
          risk_level      |-> RiskLevel(stockout),
          waste_risk      |-> waste_risk,
          shortfall       |-> IF shortfall > 0 THEN Round2(shortfall) ELSE 0,
          surplus         |-> IF surplus > 0 THEN Round2(surplus) ELSE 0,
          waste_ratio     |-> RoundRatio2(WasteRatio(stock, forecast)),
          recommended_action |->
              RecommendedAction(stockout, waste_risk, stock, forecast),
          risk_score      |-> risk_score,
          stockout_detection |->
              [ has_stockout_risk  |-> stockout.has_stockout_risk,
                alert_level        |-> stockout.alert_level,
                predicted_demand   |-> stockout.predicted_demand,
                demand_with_buffer |-> stockout.demand_with_buffer,
                buffer_amount      |-> stockout.buffer_amount,
                buffer_percent     |-> stockout.buffer_percent,
                units_needed       |-> stockout.units_needed,
                alert_message      |-> stockout.message ],
          analysis_metrics |->
              [ stock_out_risk_points |-> Min(50, risk_score),
                waste_risk_points     |-> Max(0, risk_score - 50),
                forecast_confidence   |-> ForecastConfidence(forecast) ] ]

RECURSIVE AssessUntilUnmatched(_, _, _)
\* a mutation of AssessEach: the loop ends at the first forecast without a
\* stock record
AssessUntilUnmatched(forecasts, df, percent) ==
    IF forecasts = << >> THEN << >>
    ELSE IF ~HasStockRecord(df, Head(forecasts).item_name) THEN << >>
    ELSE <<ActionPlan(Head(forecasts),
                      LatestStock(df, Head(forecasts).item_name), percent)>>
         \o AssessUntilUnmatched(Tail(forecasts), df, percent)

RECURSIVE AssessEach(_, _, _)
\* the for loop: forecasts without a stock record are skipped
AssessEach(forecasts, df, percent) ==
    IF forecasts = << >> THEN << >>
    ELSE (IF HasStockRecord(df, Head(forecasts).item_name)
          THEN <<ActionPlan(Head(forecasts),
                            LatestStock(df, Head(forecasts).item_name), percent)>>
          ELSE << >>)
         \o AssessEach(Tail(forecasts), df, percent)

check_inventory_risk(forecasts, df, percent) ==
    IF forecasts = << >> THEN NoneValue
    ELSE ListValue(AssessEach(forecasts, df, percent))

----------------------------------------------------------------------------
(* predict_next_day_usage and run_full_assessment *)

\* the call returns None, returns the result dictionary, or raises, given what
\* the forecasting library does: outcome is <<how, yhat, yhat_upper, yhat_lower>>
\* with how one of "ok", "fit_raises", "predict_raises"
predict_next_day_usage(df, item, outcome) ==
    LET result == ForecastResult(item, outcome[2], outcome[3], outcome[4])
    IN  IF ~HasStockRecord(df, item) THEN [ kind |-> "None", result |-> result ]
        ELSE IF outcome[1] = "fit_raises" THEN [ kind |-> "None", result |-> result ]
        ELSE IF outcome[1] = "predict_raises" THEN [ kind |-> "raised", result |-> result ]
        ELSE [ kind |-> "result", result |-> result ]

DefaultItems == <<"Paneer", "Chicken", "Tomato", "Milk", "Rice">>

RECURSIVE ForecastLoopPrepending(_, _, _)
\* a mutation of ForecastLoop: each result is put at the front of its list
ForecastLoopPrepending(items, df, outcomes) ==
    IF items = << >>
    THEN [ forecast_results |-> << >>, forecasting_errors |-> << >>, raised |-> FALSE ]
    ELSE LET call == predict_next_day_usage(df, Head(items), outcomes[Head(items)])
             rest == ForecastLoopPrepending(Tail(items), df, outcomes)
         IN  IF call.kind = "raised" \/ rest.raised
             THEN [ forecast_results |-> << >>, forecasting_errors |-> << >>,
                    raised |-> TRUE ]
             ELSE IF call.kind = "None"
             THEN [ rest EXCEPT !.forecasting_errors = @ \o <<Head(items)>> ]
             ELSE [ rest EXCEPT !.forecast_results = @ \o <<call.result>> ]

RECURSIVE ForecastLoop(_, _, _)
\* the loop over items_to_forecast: the forecasts, the failed items, and
\* whether a call raised
ForecastLoop(items, df, outcomes) ==
    IF items = << >>
    THEN [ forecast_results |-> << >>, forecasting_errors |-> << >>, raised |-> FALSE ]
    ELSE LET call == predict_next_day_usage(df, Head(items), outcomes[Head(items)])
             rest == ForecastLoop(Tail(items), df, outcomes)
         IN  IF call.kind = "raised" \/ rest.raised
             THEN [ forecast_results |-> << >>, forecasting_errors |-> << >>,
                    raised |-> TRUE ]
             ELSE IF call.kind = "None"
             THEN [ rest EXCEPT !.forecasting_errors = <<Head(items)>> \o @ ]
             ELSE [ rest EXCEPT !.forecast_results = <<call.result>> \o @ ]

RECURSIVE SumOf(_, _)
SumOf(plans, field) ==
    IF plans = << >> THEN 0 ELSE Head(plans)[field] + SumOf(Tail(plans), field)

MinDate(df) == CHOOSE d \in { df[k].Date : k \in 1..Len(df) } :
                   \A k \in 1..Len(df) : d <= df[k].Date
MaxDate(df) == CHOOSE d \in { df[k].Date : k \in 1..Len(df) } :
                   \A k \in 1..Len(df) : d >= df[k].Date

\* a mutation of SummaryStatistics: the risk levels are looked up under the
\* names of the alert levels
SummaryStatisticsByAlertNames(plans, df, percent) ==
    [ total_items_assessed     |-> Len(plans),
      items_requiring_restock  |-> Len(SelectSeq(plans, LAMBDA p : p.status = "RESTOCK")),
      critical_stockout_alerts |->
          Len(SelectSeq(plans, LAMBDA p : p.stockout_detection.alert_level = "CRITICAL")),
      restock_alerts           |->
          Len(SelectSeq(plans, LAMBDA p : p.stockout_detection.alert_level = "ALERT")),
      critical_risk_items      |-> Len(SelectSeq(plans, LAMBDA p : p.risk_level = "CRITICAL")),
      warning_risk_items       |-> Len(SelectSeq(plans, LAMBDA p : p.risk_level = "ALERT")),
      high_waste_risk_items    |-> Len(SelectSeq(plans, LAMBDA p : p.waste_risk = "High")),
      average_risk_score       |->
          Cent * RoundDiv(100 * SumOf(plans, "risk_score"), Len(plans)),
      total_shortfall          |-> Round2(SumOf(plans, "shortfall")),
      safety_buffer_percent    |-> percent,
      data_date_range          |->
          [ start_date |-> MinDate(df), end_date |-> MaxDate(df) ] ]

SummaryStatistics(plans, df, percent) ==
    [ total_items_assessed     |-> Len(plans),
      items_requiring_restock  |-> Len(SelectSeq(plans, LAMBDA p : p.status = "RESTOCK")),
      critical_stockout_alerts |->
          Len(SelectSeq(plans, LAMBDA p : p.stockout_detection.alert_level = "CRITICAL")),
      restock_alerts           |->
          Len(SelectSeq(plans, LAMBDA p : p.stockout_detection.alert_level = "ALERT")),
      critical_risk_items      |-> Len(SelectSeq(plans, LAMBDA p : p.risk_level = "Critical")),
      warning_risk_items       |-> Len(SelectSeq(plans, LAMBDA p : p.risk_level = "Warning")),
      high_waste_risk_items    |-> Len(SelectSeq(plans, LAMBDA p : p.waste_risk = "High")),
      average_risk_score       |->
          Cent * RoundDiv(100 * SumOf(plans, "risk_score"), Len(plans)),
      total_shortfall          |-> Round2(SumOf(plans, "shortfall")),
      safety_buffer_percent    |-> percent,
      data_date_range          |->
          [ start_date |-> MinDate(df), end_date |-> MaxDate(df) ] ]

\* messages and details are tuples: the fixed text, then what is formatted in
ErrorResult(message, details) ==
    [ status |-> "error", message |-> message, error_details |-> details ]

\* the run once it has forecasts: the risk assessment, the test of its result
\* and the envelope returned
AssessAndReport(forecasts, forecasting_errors, df, percent) ==
    LET returned == check_inventory_risk(forecasts, df, percent)
        plans == returned.list
    IN  IF returned.kind = "None" \/ plans = << >>
        THEN ErrorResult(<<"Failed to generate action plans">>,
                         <<"Risk assessment returned no results">>)
        ELSE [ status  |-> "success",
               message |-> <<"Assessment completed successfully">>,
               data    |->
                   [ action_plans       |-> plans,
                     summary_statistics |-> SummaryStatistics(plans, df, percent),
                     forecasting_errors |->
                         IF forecasting_errors # << >>
                         THEN ListValue(forecasting_errors) ELSE NoneValue ] ]

\* a mutation of run_full_assessment: no handler around the body, an exception
\* of a forecast leaves the function
RunWithoutHandler(requested, found, df, outcomes, percent) ==
    LET items == IF requested.kind = "None" THEN DefaultItems ELSE requested.list
        loop == ForecastLoop(items, df, outcomes)
    IN  IF ~found
        THEN ErrorResult(<<"Failed to load inventory data">>, <<"searched locations">>)
        ELSE IF loop.raised
        THEN [ status |-> "raised", exception |-> <<"exception text">> ]
        ELSE IF loop.forecast_results = << >>
        THEN ErrorResult(<<"Failed to generate forecasts for any items. Tried", items>>,
                         <<"Failed items", loop.forecasting_errors>>)
        ELSE AssessAndReport(loop.forecast_results, loop.forecasting_errors, df, percent)

\* requested: NoneValue or ListValue(items); found: the dataset file exists at
\* one of the searched locations
run_full_assessment(requested, found, df, outcomes, percent) ==
    LET items == IF requested.kind = "None" THEN DefaultItems ELSE requested.list
        loop == ForecastLoop(items, df, outcomes)
    IN  IF ~found
        THEN ErrorResult(<<"Failed to load inventory data">>, <<"searched locations">>)
        ELSE IF loop.raised
        THEN ErrorResult(<<"An unexpected error occurred during assessment">>,
                         <<"exception text">>)
        ELSE IF loop.forecast_results = << >>
        THEN ErrorResult(<<"Failed to generate forecasts for any items. Tried", items>>,
                         <<"Failed items", loop.forecasting_errors>>)
        ELSE AssessAndReport(loop.forecast_results, loop.forecasting_errors, df, percent)

----------------------------------------------------------------------------
(* load_inventory_data *)

\* the searched locations, in the order of search_paths
SearchPaths ==
    <<"Current Working Directory", "Script Directory", "Parent Directory",
      "Grandparent Directory">>

\* what is at a location: no file, a file that read_csv fails on (df is then
\* empty), or a file that read_csv reads as df
NoFile == [ exists |-> FALSE, readable |-> FALSE, df |-> << >> ]
UnreadableFile == [ exists |-> TRUE, readable |-> FALSE, df |-> << >> ]
ReadableFile(df) == [ exists |-> TRUE, readable |-> TRUE, df |-> df ]

RECURSIVE TryEachPathFirstExisting(_, _)
\* a mutation of TryEachPath: the search ends at the first file that exists,
\* readable or not
TryEachPathFirstExisting(files, k) ==
    IF k > Len(SearchPaths)
    THEN [ kind |-> "FileNotFoundError", df |-> << >>, location |-> 0,
           searched |-> SearchPaths ]
    ELSE IF files[k].exists
    THEN IF files[k].readable
         THEN [ kind |-> "df", df |-> files[k].df, location |-> k, searched |-> << >> ]
         ELSE [ kind |-> "FileNotFoundError", df |-> << >>, location |-> 0,
                searched |-> SearchPaths ]
    ELSE TryEachPathFirstExisting(files, k + 1)

RECURSIVE TryEachPath(_, _)
\* the for loop from the k-th path on, and the raise after it; location is
\* the position of the file returned
TryEachPath(files, k) ==
    IF k > Len(SearchPaths)
    THEN [ kind |-> "FileNotFoundError", df |-> << >>, location |-> 0,
           searched |-> SearchPaths ]
    ELSE IF files[k].exists /\ files[k].readable
    THEN [ kind |-> "df", df |-> files[k].df, location |-> k, searched |-> << >> ]
    ELSE TryEachPath(files, k + 1)

load_inventory_data(files) == TryEachPath(files, 1)

\* the variables of load_inventory_data when it is not called
LoadIdle == locations = << >> /\ load_result = [ kind |-> "pending" ]

----------------------------------------------------------------------------
(* get_prescriptive_json of intelligence.py *)

\* What the call of the AI service does is a record:
\*   kind         "raises" (the client raises), "text" (the text is not valid
\*                JSON), "array" (valid JSON that is not an object) or "object"
\*   present      the fields of the object
\*   metrics_kind what impact_metrics is when present: "string" (not an
\*                object), "numbers", or "not_numeric" (an object with a
\*                value that float() or int() rejects)
\*   metric_keys  the keys of impact_metrics when it is an object

RequiredFields ==
    { "reasoning", "ngo_recommendation", "impact_metrics", "handling_instructions" }

MetricKeys == { "co2_saved_kg", "meals_provided", "cost_saved_inr" }

\* int(x / y) for y > 0: the quotient truncated towards zero
Trunc(x, y) == IF x >= 0 THEN x \div y ELSE 0 - ((0 - x) \div y)

\* the values the AI service gives for the metrics (meals with a fraction)
GivenMetric(key) ==
    IF key = "co2_saved_kg" THEN 25 * One + 12345
    ELSE IF key = "meals_provided" THEN 100 * One + 70 * Cent
    ELSE 2500 * One

\* the second argument of metrics.get: surplus_kg * 2.5, * 10, * 250
DefaultMetric(key, qty) ==
    IF key = "co2_saved_kg" THEN (5 * qty) \div 2
    ELSE IF key = "meals_provided" THEN 10 * qty
    ELSE 250 * qty

\* float(...) keeps the value, int(...) gives a whole number of meals
NumericMetric(key, value) ==
    IF key = "meals_provided" THEN Trunc(value, One) ELSE value

\* the value of a field of the parsed object, and the placeholder of a
\* missing one
GivenField(field) ==
    IF field = "confidence_score" THEN <<92>> ELSE <<"from the AI service", field>>
MissingField(field) == <<"[Missing: ", field, "]">>

\* a mutation of FallbackPayload: the metrics are not rounded
FallbackUnrounded(qty) ==
    [ reasoning             |-> <<"Failed to parse AI response: ", "error text">>,
      ngo_recommendation    |-> <<"Manual review required">>,
      impact_metrics        |->
          [ co2_saved_kg   |-> (5 * qty) \div 2,
            meals_provided |-> Trunc(10 * qty, One),
            cost_saved_inr |-> 250 * qty ],
      handling_instructions |-> <<"Contact restaurant manager for manual handling">>,
      confidence_score      |-> <<0>>,
      error                 |-> <<"JSON parsing failed">> ]

\* except json.JSONDecodeError
FallbackPayload(qty) ==
    [ reasoning             |-> <<"Failed to parse AI response: ", "error text">>,
      ngo_recommendation    |-> <<"Manual review required">>,
      impact_metrics        |->
          [ co2_saved_kg   |-> Cent * RoundDiv(5 * qty, 2 * Cent),
            meals_provided |-> Trunc(10 * qty, One),
            cost_saved_inr |-> Round2(250 * qty) ],
      handling_instructions |-> <<"Contact restaurant manager for manual handling">>,
      confidence_score      |-> <<0>>,
      error                 |-> <<"JSON parsing failed">> ]

\* except Exception
ErrorPayload(item) ==
    [ error  |-> <<"error text">>,
      tip    |-> <<"Check API key and Gemini 3 Flash model availability">>,
      item   |-> <<item>>,
      status |-> <<"error">> ]

\* the object after the loop over required_fields and the conversion of the
\* metrics
ValidatedObject(qty, response) ==
    [ f \in response.present \cup RequiredFields |->
        IF f \notin response.present THEN MissingField(f)
        ELSE IF f # "impact_metrics" THEN GivenField(f)
        ELSE IF response.metrics_kind = "string" THEN GivenField(f)
        ELSE [ k \in MetricKeys |->
                 NumericMetric(k, IF k \in response.metric_keys
                                  THEN GivenMetric(k) ELSE DefaultMetric(k, qty)) ] ]

get_prescriptive_json(item, qty, response) ==
    IF response.kind \in { "raises", "array" } THEN ErrorPayload(item)
    ELSE IF response.kind = "text" THEN FallbackPayload(qty)
    ELSE IF "impact_metrics" \in response.present /\ response.metrics_kind = "not_numeric"
    THEN ErrorPayload(item)
    ELSE ValidatedObject(qty, response)

\* the variables of get_prescriptive_json when it is not called
AiIdle ==
    /\ item_name = ""
    /\ surplus_kg = 0
    /\ gemini_response = [ kind |-> "none" ]
    /\ prescriptive = [ pending |-> TRUE ]

----------------------------------------------------------------------------
(* The endpoints of main.py *)

\* the outcome of a block of code: it returns a body or raises an exception;
\* exception is "HTTPException" (with its status_code) or "Exception"
Return(body) ==
    [ kind |-> "return", body |-> body, exception |-> "", status_code |-> 200,
      detail |-> << >> ]
Raise(exception, status_code, detail) ==
    [ kind |-> "raise", body |-> << >>, exception |-> exception,
      status_code |-> status_code, detail |-> detail ]

\* the body of the try block of get_item_forecast
ForecastTryBlock(found, df, item, outcome) ==
    LET forecast == predict_next_day_usage(df, item, outcome)
    IN  IF ~found THEN Raise("Exception", 0, <<"FileNotFoundError">>)
        ELSE IF forecast.kind = "raised" THEN Raise("Exception", 0, <<"exception text">>)
        ELSE IF forecast.kind = "None"
        THEN Raise("HTTPException", 404, <<"No forecast data for item: ", item>>)
        ELSE Return([ status |-> "success", item |-> item, forecast |-> forecast.result ])

\* except Exception as e: raise HTTPException(status_code=500, ...); an
\* HTTPException is an Exception
ForecastExcept(tried) ==
    IF tried.kind = "raise"
    THEN Raise("HTTPException", 500, <<"Forecast failed: ", tried.detail>>)
    ELSE tried

\* what the framework sends: the body returned with status 200, or the
\* response of http_exception_handler
JSONResponse(outcome) ==
    IF outcome.kind = "return"
    THEN [ status_code |-> 200, content |-> outcome.body ]
    ELSE [ status_code |-> outcome.status_code,
           content |-> [ status |-> "error", detail |-> outcome.detail ] ]

get_item_forecast(found, df, item, outcome) ==
    JSONResponse(ForecastExcept(ForecastTryBlock(found, df, item, outcome)))

\* GET /stockout-risk/{item_name}: the query parameters are passed to the
\* detector as they are, and the detector raises for no pair of floats
get_stockout_risk(item, demand, stock, buffer) ==
    JSONResponse(Return([ status |-> "success", item |-> item,
                          stockout_analysis |-> detect_stockout_risk(demand, stock, buffer) ]))

\* the body of the try block of analyze_surplus_with_ai; reason is not given
\* and the timestamp is the time of the answer
SurplusTryBlock(item, qty, response) ==
    LET ai_result == get_prescriptive_json(item, qty, response)
    IN  IF qty <= 0
        THEN Raise("HTTPException", 400, <<"Surplus must be > 0 kg">>)
        ELSE IF "error" \in DOMAIN ai_result
        THEN Raise("HTTPException", 500, <<"Gemini API error: ", ai_result.error>>)
        ELSE Return([ item |-> item, surplus_kg |-> qty, reason_context |-> NoneValue,
                      ai_analysis |-> ai_result, status |-> "success",
                      timestamp |-> <<"now">> ])

\* except HTTPException: raise, then except Exception as e: raise
\* HTTPException(status_code=500, ...)
SurplusExcept(tried) ==
    IF tried.kind = "raise" /\ tried.exception # "HTTPException"
    THEN Raise("HTTPException", 500, <<"Surplus analysis failed: ", tried.detail>>)
    ELSE tried

analyze_surplus_with_ai(item, qty, response) ==
    JSONResponse(SurplusExcept(SurplusTryBlock(item, qty, response)))

\* a mutation of HighWasteTryBlock: the items at Moderate waste risk are
\* returned too
HighWasteOrModerate(found, df, outcomes) ==
    LET result == run_full_assessment(NoneValue, found, df, outcomes, 10)
        waste_risk_items ==
            SelectSeq(result.data.action_plans,
                      LAMBDA plan : plan.waste_risk \in { "High", "Moderate" })
    IN  IF result.status # "success"
        THEN Raise("HTTPException", 500, <<"Assessment failed">>)
        ELSE Return([ status |-> "success",
                      count |-> Len(waste_risk_items),
                      high_risk_items |-> waste_risk_items,
                      total_surplus_kg |-> Round2(SumOf(waste_risk_items, "surplus")) ])

\* the body of the try block of get_high_waste_risk_items: the assessment of
\* the default items at the default safety buffer, filtered
HighWasteTryBlock(found, df, outcomes) ==
    LET result == run_full_assessment(NoneValue, found, df, outcomes, 10)
        waste_risk_items ==
            SelectSeq(result.data.action_plans, LAMBDA plan : plan.waste_risk = "High")
    IN  IF result.status # "success"
        THEN Raise("HTTPException", 500, <<"Assessment failed">>)
        ELSE Return([ status |-> "success",
                      count |-> Len(waste_risk_items),
                      high_risk_items |-> waste_risk_items,
                      total_surplus_kg |-> Round2(SumOf(waste_risk_items, "surplus")) ])

\* except Exception as e: raise HTTPException(status_code=500, detail=str(e))
HighWasteExcept(tried) ==
    IF tried.kind = "raise"
    THEN Raise("HTTPException", 500, <<"str(e)", tried.detail>>)
    ELSE tried

get_high_waste_risk_items(found, df, outcomes) ==
    JSONResponse(HighWasteExcept(HighWasteTryBlock(found, df, outcomes)))

\* the variables of the endpoints when none is called
HttpIdle == requested_item = "" /\ http_response = [ status_code |-> 0 ]

----------------------------------------------------------------------------
(* export_results_to_csv and GET /export-assessment-csv *)

\* the dictionary export_df gets for an action plan
ExportRow(p) ==
    [ Item_Name            |-> p.item_name,
      Current_Stock        |-> p.current_stock,
      Predicted_Usage      |-> p.predicted_value,
      Upper_Bound          |-> p.upper_bound,
      Lower_Bound          |-> p.lower_bound,
      Status               |-> p.status,
      Risk_Level           |-> p.risk_level,
      Waste_Risk           |-> p.waste_risk,
      Shortfall            |-> p.shortfall,
      Surplus              |-> p.surplus,
      Risk_Score           |-> p.risk_score,
      Stockout_Alert_Level |-> p.stockout_detection.alert_level,
      Units_Needed         |-> p.stockout_detection.units_needed,
      Recommended_Action   |-> p.recommended_action ]

\* export_df: one row for each action plan, in order
ExportDataFrame(plans) == [ k \in 1..Len(plans) |-> ExportRow(plans[k]) ]

\* the file after rows are written from its start by a writer that opened it
\* before: what was written beyond them by another writer stays (the bytes
\* of the file are taken row by row)
WrittenOver(file, rows) == rows \o SubSeq(file, Len(rows) + 1, Len(file))

\* the callers of the endpoint that are served at the same time (each
\* request is run by a thread of the server's pool)
Callers == { 1, 2 }

\* a request that has not started: pc is the step it is at
NewRequest(safety_buffer) ==
    [ safety_buffer |-> safety_buffer, pc |-> "assess",
      result |-> [ status |-> "pending" ], response |-> [ status_code |-> 0 ] ]

\* raise HTTPException(500, ...) in the try block, caught by "except Exception"
\* and raised again with str(e) as its detail
ExportFailure(detail) ==
    JSONResponse(Raise("HTTPException", 500, <<"str(e)", detail>>))

\* the variables of the export endpoint when it is not called
ExportIdle ==
    /\ export_requests = << >>
    /\ report_file = << >>
    /\ data_dir_writable = TRUE

----------------------------------------------------------------------------
(* Bounds of the inputs *)

MaxDemand == 6           \* largest predicted_demand, in steps of 3.333
MaxStock == 9            \* largest current_stock, in steps of 3.333
MaxBufferStep == 3       \* safety_buffer_percent ranges over 10 and 0, 25, .. 25 * MaxBufferStep
MaxForecast == 4         \* largest forecaster output, in steps of 3.333
MaxNegForecast == 1      \* most negative forecaster output, in steps of 3.333
MaxForecasts == 2        \* longest list of forecasts
MaxRows == 2             \* most dataset rows, and most distinct dates
MaxRequested == 3        \* longest list of requested items
MaxSurplus == 3          \* largest surplus_kg, in steps of 3.333 and of 0.55

Step == 3333 * Milli

Demands == { Step * k : k \in 0..MaxDemand }
Stocks == { Step * k : k \in 0..MaxStock }
BufferPercents == { 10 } \cup { 25 * k : k \in 0..MaxBufferStep }
ForecastValues == { Step * k : k \in (0 - MaxNegForecast)..MaxForecast }
Items == { "Paneer", "Chicken" }
Dates == 1..MaxRows

SeqsUpTo(S, n) == UNION { [1..k -> S] : k \in 0..n }

Row(date, item, stock) ==
    [ Date |-> date, Item_Name |-> item, Current_Stock |-> stock ]

\* one row per item and day
OneRowPerItemAndDay(df) ==
    \A j, k \in 1..Len(df) :
        (df[j].Item_Name = df[k].Item_Name /\ df[j].Date = df[k].Date) => j = k

\* the datasets of several rows
Datasets ==
    { d \in SeqsUpTo({ Row(t, i, s) : t \in Dates, i \in Items,
                                       s \in {Step, 3 * Step} }, MaxRows) :
          OneRowPerItemAndDay(d) }

\* what the forecasting library may do for an item
Outcomes ==
    { <<how, 0, 0, 0>> : how \in { "fit_raises", "predict_raises" } }
        \cup { <<"ok", Step * y, Step * (y + 1), Step * (y - 1)>> : y \in {1, 2} }

\* the lists of items a caller may ask for
Requests == { NoneValue } \cup { ListValue(l) : l \in SeqsUpTo(Items, MaxRequested) }

\* every forecast and stock level for a single item, with or without its row
SingleItemInputs ==
    { [ forecasts |-> <<ForecastResult("Paneer", y, u, l)>>, df |-> df, percent |-> b ] :
        y \in ForecastValues, u \in ForecastValues, l \in ForecastValues,
        df \in { << >> } \cup { <<Row(1, "Paneer", s)>> : s \in Stocks },
        b \in BufferPercents }

\* lists of forecasts against datasets of several rows, at the default buffer
SeveralItemInputs ==
    { [ forecasts |-> fs, df |-> df, percent |-> 10 ] :
        fs \in SeqsUpTo({ ForecastResult(i, Step * y, Step * (y + 1), Step * (y - 1)) :
                              i \in Items, y \in {1, 2} }, MaxForecasts),
        df \in Datasets }

----------------------------------------------------------------------------
(* Two calls of detect_stockout_risk with the same demand and buffer *)

InitDetect ==
    /\ predicted_demand \in Demands
    /\ stock_levels \in Stocks \X Stocks
    /\ safety_buffer_percent \in BufferPercents
    /\ detections = << >>
    /\ forecast_results = << >>
    /\ current_stock_df = << >>
    /\ action_plans = Pending
    /\ items_to_forecast = NoneValue
    /\ dataset_found = TRUE
    /\ forecaster = << >>
    /\ run_result = [ status |-> "pending" ]
    /\ LoadIdle
    /\ AiIdle
    /\ HttpIdle
    /\ ExportIdle

DetectCall ==
    /\ Len(detections) < 2
    /\ detections' = Append(detections,
           detect_stockout_risk(predicted_demand,
                                stock_levels[Len(detections) + 1],
                                safety_buffer_percent))
    /\ UNCHANGED <<predicted_demand, stock_levels, safety_buffer_percent>>
    /\ UNCHANGED assessVars
    /\ UNCHANGED runVars
    /\ UNCHANGED loadVars
    /\ UNCHANGED aiVars
    /\ UNCHANGED httpVars
    /\ UNCHANGED exportVars

NextDetect == DetectCall

SpecDetect == InitDetect /\ [][NextDetect]_vars

----------------------------------------------------------------------------
(* One call of check_inventory_risk *)

InitAssess ==
    /\ \E in \in SingleItemInputs \cup SeveralItemInputs :
           /\ forecast_results = in.forecasts
           /\ current_stock_df = in.df
           /\ safety_buffer_percent = in.percent
    /\ action_plans = Pending
    /\ predicted_demand = 0
    /\ stock_levels = <<0, 0>>
    /\ detections = << >>
    /\ items_to_forecast = NoneValue
    /\ dataset_found = TRUE
    /\ forecaster = << >>
    /\ run_result = [ status |-> "pending" ]
    /\ LoadIdle
    /\ AiIdle
    /\ HttpIdle
    /\ ExportIdle

CheckInventoryRisk ==
    /\ action_plans.kind = "pending"
    /\ action_plans' = check_inventory_risk(forecast_results, current_stock_df,
                                            safety_buffer_percent)
    /\ UNCHANGED <<forecast_results, current_stock_df, safety_buffer_percent>>
    /\ UNCHANGED detectVars
    /\ UNCHANGED runVars
    /\ UNCHANGED loadVars
    /\ UNCHANGED aiVars
    /\ UNCHANGED httpVars
    /\ UNCHANGED exportVars

NextAssess == CheckInventoryRisk

SpecAssess == InitAssess /\ [][NextAssess]_vars

----------------------------------------------------------------------------
(* run_full_assessment from the risk assessment on, for a list of forecasts
   that is given: the items of the forecasts need not be in the dataset *)

InitReport ==
    /\ \E in \in SeveralItemInputs :
           /\ in.forecasts # << >>
           /\ forecast_results = in.forecasts
           /\ current_stock_df = in.df
           /\ safety_buffer_percent = in.percent
    /\ action_plans = Pending
    /\ run_result = [ status |-> "pending" ]
    /\ predicted_demand = 0
    /\ stock_levels = <<0, 0>>
    /\ detections = << >>
    /\ items_to_forecast = NoneValue
    /\ dataset_found = TRUE
    /\ forecaster = << >>
    /\ LoadIdle
    /\ AiIdle
    /\ HttpIdle
    /\ ExportIdle

AssessForecasts ==
    /\ run_result.status = "pending"
    /\ action_plans' = check_inventory_risk(forecast_results, current_stock_df,
                                            safety_buffer_percent)
    /\ run_result' = AssessAndReport(forecast_results, << >>, current_stock_df,
                                     safety_buffer_percent)
    /\ UNCHANGED <<forecast_results, current_stock_df, safety_buffer_percent>>
    /\ UNCHANGED <<items_to_forecast, dataset_found, forecaster>>
    /\ UNCHANGED detectVars
    /\ UNCHANGED loadVars
    /\ UNCHANGED aiVars
    /\ UNCHANGED httpVars
    /\ UNCHANGED exportVars

NextReport == AssessForecasts

SpecReport == InitReport /\ [][NextReport]_vars

----------------------------------------------------------------------------
(* One call of load_inventory_data *)

\* the files that may be at a location: none, an unreadable one, or one of
\* two datasets
FilesAt ==
    { NoFile, UnreadableFile,
      ReadableFile(<<Row(1, "Paneer", Step)>>), ReadableFile(<<Row(1, "Chicken", Step)>>) }

InitLoad ==
    /\ locations \in [1..Len(SearchPaths) -> FilesAt]
    /\ load_result = [ kind |-> "pending" ]
    /\ items_to_forecast = NoneValue
    /\ dataset_found = TRUE
    /\ forecaster = << >>
    /\ run_result = [ status |-> "pending" ]
    /\ forecast_results = << >>
    /\ current_stock_df = << >>
    /\ action_plans = Pending
    /\ safety_buffer_percent = 10
    /\ predicted_demand = 0
    /\ stock_levels = <<0, 0>>
    /\ detections = << >>
    /\ AiIdle
    /\ HttpIdle
    /\ ExportIdle

LoadInventoryData ==
    /\ load_result.kind = "pending"
    /\ load_result' = load_inventory_data(locations)
    /\ UNCHANGED locations
    /\ UNCHANGED safety_buffer_percent
    /\ UNCHANGED detectVars
    /\ UNCHANGED assessVars
    /\ UNCHANGED runVars
    /\ UNCHANGED aiVars
    /\ UNCHANGED httpVars
    /\ UNCHANGED exportVars

NextLoad == LoadInventoryData

SpecLoad == InitLoad /\ [][NextLoad]_vars

----------------------------------------------------------------------------
(* One call of get_prescriptive_json *)

ResponseFields == RequiredFields \cup { "confidence_score" }

\* what the AI service may do
Responses ==
    { [ kind |-> k, present |-> {}, metrics_kind |-> "string", metric_keys |-> {} ] :
        k \in { "raises", "text", "array" } }
    \cup { [ kind |-> "object", present |-> p, metrics_kind |-> "string",
             metric_keys |-> {} ] : p \in SUBSET ResponseFields }
    \cup { [ kind |-> "object", present |-> p \cup { "impact_metrics" },
             metrics_kind |-> m, metric_keys |-> ks ] :
             p \in SUBSET ResponseFields, m \in { "numbers", "not_numeric" },
             ks \in (SUBSET MetricKeys) \ { {} } }
    \cup { [ kind |-> "object", present |-> p \cup { "impact_metrics" },
             metrics_kind |-> "numbers", metric_keys |-> {} ] :
             p \in SUBSET ResponseFields }

\* the surplus quantities: multiples of 3.333 kg and of 0.55 kg
Quantities ==
    { Step * k : k \in 0..MaxSurplus } \cup { 55 * Cent * k : k \in 0..MaxSurplus }

InitAi ==
    /\ item_name \in Items
    /\ surplus_kg \in Quantities
    /\ gemini_response \in Responses
    /\ prescriptive = [ pending |-> TRUE ]
    /\ LoadIdle
    /\ items_to_forecast = NoneValue
    /\ dataset_found = TRUE
    /\ forecaster = << >>
    /\ run_result = [ status |-> "pending" ]
    /\ forecast_results = << >>
    /\ current_stock_df = << >>
    /\ action_plans = Pending
    /\ safety_buffer_percent = 10
    /\ predicted_demand = 0
    /\ stock_levels = <<0, 0>>
    /\ detections = << >>
    /\ HttpIdle
    /\ ExportIdle

GetPrescriptiveJson ==
    /\ "pending" \in DOMAIN prescriptive
    /\ prescriptive' = get_prescriptive_json(item_name, surplus_kg, gemini_response)
    /\ UNCHANGED <<item_name, surplus_kg, gemini_response>>
    /\ UNCHANGED safety_buffer_percent
    /\ UNCHANGED detectVars
    /\ UNCHANGED assessVars
    /\ UNCHANGED runVars
    /\ UNCHANGED loadVars
    /\ UNCHANGED httpVars
    /\ UNCHANGED exportVars

NextAi == GetPrescriptiveJson

SpecAi == InitAi /\ [][NextAi]_vars

\* the outcome for the items of the dataset, and for any other item (which
\* has no rows, so that the forecasting library is not reached)
OutcomeOf == [ i \in Items \cup { DefaultItems[k] : k \in 1..Len(DefaultItems) } |->
                 IF i \in Items THEN forecaster[i] ELSE <<"fit_raises", 0, 0, 0>> ]

----------------------------------------------------------------------------
(* One request GET /forecast/{item_name} *)

InitForecastRequest ==
    /\ requested_item \in Items \cup { "Tomato" }
    /\ dataset_found \in BOOLEAN
    /\ current_stock_df \in (IF dataset_found THEN Datasets ELSE { << >> })
    /\ forecaster \in [Items -> Outcomes]
    /\ http_response = [ status_code |-> 0 ]
    /\ items_to_forecast = NoneValue
    /\ run_result = [ status |-> "pending" ]
    /\ forecast_results = << >>
    /\ action_plans = Pending
    /\ safety_buffer_percent = 10
    /\ predicted_demand = 0
    /\ stock_levels = <<0, 0>>
    /\ detections = << >>
    /\ LoadIdle
    /\ AiIdle
    /\ ExportIdle

GetItemForecast ==
    /\ http_response.status_code = 0
    /\ http_response' = get_item_forecast(dataset_found, current_stock_df,
                                          requested_item, OutcomeOf[requested_item])
    /\ UNCHANGED requested_item
    /\ UNCHANGED safety_buffer_percent
    /\ UNCHANGED detectVars
    /\ UNCHANGED assessVars
    /\ UNCHANGED runVars
    /\ UNCHANGED loadVars
    /\ UNCHANGED aiVars
    /\ UNCHANGED exportVars

NextForecastRequest == GetItemForecast

SpecForecastRequest == InitForecastRequest /\ [][NextForecastRequest]_vars

----------------------------------------------------------------------------
(* One call of run_full_assessment *)

Init ==
    /\ items_to_forecast \in Requests
    /\ dataset_found \in BOOLEAN
    /\ current_stock_df \in (IF dataset_found THEN Datasets ELSE { << >> })
    /\ forecaster \in [Items -> Outcomes]
    /\ safety_buffer_percent \in {10, 50}
    /\ run_result = [ status |-> "pending" ]
    /\ forecast_results = << >>
    /\ action_plans = Pending
    /\ predicted_demand = 0
    /\ stock_levels = <<0, 0>>
    /\ detections = << >>
    /\ LoadIdle
    /\ AiIdle
    /\ HttpIdle
    /\ ExportIdle

RunFullAssessment ==
    /\ run_result.status = "pending"
    /\ run_result' = run_full_assessment(items_to_forecast, dataset_found,
                                          current_stock_df, OutcomeOf,
                                          safety_buffer_percent)
    /\ UNCHANGED <<items_to_forecast, dataset_found, forecaster, safety_buffer_percent>>
    /\ UNCHANGED assessVars
    /\ UNCHANGED detectVars
    /\ UNCHANGED loadVars
    /\ UNCHANGED aiVars
    /\ UNCHANGED httpVars
    /\ UNCHANGED exportVars

Next == RunFullAssessment

Spec == Init /\ [][Next]_vars

----------------------------------------------------------------------------
(* Two requests GET /export-assessment-csv served at the same time *)

\* the datasets with one row for each of the two items
ExportDatasets ==
    { <<Row(1, "Paneer", s), Row(1, "Chicken", t)>> : s \in {Step, 3 * Step},
                                                       t \in {Step, 3 * Step} }

InitExport ==
    /\ export_requests \in { [ r \in Callers |-> NewRequest(b[r]) ] :
                                 b \in [Callers -> {10, 50}] }
    /\ report_file = << >>
    /\ data_dir_writable \in BOOLEAN
    /\ dataset_found \in BOOLEAN
    /\ current_stock_df \in (IF dataset_found THEN ExportDatasets ELSE { << >> })
    /\ forecaster \in [Items -> Outcomes]
    /\ items_to_forecast = NoneValue
    /\ run_result = [ status |-> "pending" ]
    /\ safety_buffer_percent = 10
    /\ forecast_results = << >>
    /\ action_plans = Pending
    /\ predicted_demand = 0
    /\ stock_levels = <<0, 0>>
    /\ detections = << >>
    /\ LoadIdle
    /\ AiIdle
    /\ HttpIdle

ExportUnchanged ==
    /\ UNCHANGED safety_buffer_percent
    /\ UNCHANGED detectVars
    /\ UNCHANGED assessVars
    /\ UNCHANGED runVars
    /\ UNCHANGED loadVars
    /\ UNCHANGED aiVars
    /\ UNCHANGED httpVars

\* result = run_full_assessment(safety_buffer_percent=safety_buffer) and the
\* test of its status
ExportAssess(r) ==
    LET request == export_requests[r]
        result == run_full_assessment(NoneValue, dataset_found, current_stock_df,
                                      OutcomeOf, request.safety_buffer)
    IN  /\ request.pc = "assess"
        /\ export_requests' =
             [ export_requests EXCEPT ![r] =
                 IF result.status # "success"
                 THEN [ request EXCEPT !.pc = "done", !.result = result,
                            !.response = ExportFailure(<<"Assessment failed">>) ]
                 ELSE [ request EXCEPT !.pc = "open", !.result = result ] ]
        /\ UNCHANGED <<report_file, data_dir_writable>>
        /\ ExportUnchanged

\* export_results_to_csv up to the opening of the file by to_csv, which
\* empties it; when it cannot be opened the function returns its error
\* dictionary and the endpoint raises
ExportOpen(r) ==
    LET request == export_requests[r]
    IN  /\ request.pc = "open"
        /\ IF data_dir_writable
           THEN /\ report_file' = << >>
                /\ export_requests' = [ export_requests EXCEPT ![r].pc = "write" ]
           ELSE /\ report_file' = report_file
                /\ export_requests' =
                     [ export_requests EXCEPT ![r] =
                         [ request EXCEPT !.pc = "done",
                             !.response = ExportFailure(<<"Export failed: ",
                                                          "Failed to export results">>) ] ]
        /\ UNCHANGED data_dir_writable
        /\ ExportUnchanged

\* to_csv writes the rows and closes the file; export_results_to_csv returns
\* the path and the endpoint returns a FileResponse for it
ExportWrite(r) ==
    LET request == export_requests[r]
    IN  /\ request.pc = "write"
        /\ report_file' =
             WrittenOver(report_file, ExportDataFrame(request.result.data.action_plans))
        /\ export_requests' = [ export_requests EXCEPT ![r].pc = "send" ]
        /\ UNCHANGED data_dir_writable
        /\ ExportUnchanged

\* the server sends the FileResponse: it reads the file at the path
SendFile(r) ==
    LET request == export_requests[r]
    IN  /\ request.pc = "send"
        /\ export_requests' =
             [ export_requests EXCEPT ![r] =
                 [ request EXCEPT !.pc = "done",
                     !.response = [ status_code |-> 200, content |-> report_file ] ] ]
        /\ UNCHANGED <<report_file, data_dir_writable>>
        /\ ExportUnchanged

NextExport ==
    \E r \in Callers :
        \/ ExportAssess(r)
        \/ ExportOpen(r)
        \/ ExportWrite(r)
        \/ SendFile(r)

SpecExport == InitExport /\ [][NextExport]_vars

----------------------------------------------------------------------------
(* One request GET /stockout-risk/{item_name} *)

\* the values a client may send as predicted_demand and current_stock
QueryValues == { Step * k : k \in (0 - MaxNegForecast)..MaxDemand }

InitStockoutRequest ==
    /\ requested_item \in Items \cup { "Tomato" }
    /\ predicted_demand \in QueryValues
    /\ stock_levels \in { <<s, 0>> : s \in QueryValues }
    /\ safety_buffer_percent \in BufferPercents
    /\ detections = << >>
    /\ http_response = [ status_code |-> 0 ]
    /\ forecast_results = << >>
    /\ current_stock_df = << >>
    /\ action_plans = Pending
    /\ items_to_forecast = NoneValue
    /\ dataset_found = TRUE
    /\ forecaster = << >>
    /\ run_result = [ status |-> "pending" ]
    /\ LoadIdle
    /\ AiIdle
    /\ ExportIdle

GetStockoutRisk ==
    /\ http_response.status_code = 0
    /\ detections' = <<detect_stockout_risk(predicted_demand, stock_levels[1],
                                            safety_buffer_percent)>>
    /\ http_response' = get_stockout_risk(requested_item, predicted_demand,
                                          stock_levels[1], safety_buffer_percent)
    /\ UNCHANGED <<requested_item, predicted_demand, stock_levels, safety_buffer_percent>>
    /\ UNCHANGED assessVars
    /\ UNCHANGED runVars
    /\ UNCHANGED loadVars
    /\ UNCHANGED aiVars
    /\ UNCHANGED exportVars

NextStockoutRequest == GetStockoutRisk

SpecStockoutRequest == InitStockoutRequest /\ [][NextStockoutRequest]_vars

----------------------------------------------------------------------------
(* Three calls of detect_stockout_risk, the first and the third with the
   same arguments *)

InitRepeat ==
    /\ predicted_demand \in Demands
    /\ stock_levels \in { <<s, t, s>> : s \in Stocks, t \in Stocks }
    /\ safety_buffer_percent \in BufferPercents
    /\ detections = << >>
    /\ forecast_results = << >>
    /\ current_stock_df = << >>
    /\ action_plans = Pending
    /\ items_to_forecast = NoneValue
    /\ dataset_found = TRUE
    /\ forecaster = << >>
    /\ run_result = [ status |-> "pending" ]
    /\ LoadIdle
    /\ AiIdle
    /\ HttpIdle
    /\ ExportIdle

DetectRepeated ==
    /\ Len(detections) < Len(stock_levels)
    /\ detections' = Append(detections,
           detect_stockout_risk(predicted_demand,
                                stock_levels[Len(detections) + 1],
                                safety_buffer_percent))
    /\ UNCHANGED <<predicted_demand, stock_levels, safety_buffer_percent>>
    /\ UNCHANGED assessVars
    /\ UNCHANGED runVars
    /\ UNCHANGED loadVars
    /\ UNCHANGED aiVars
    /\ UNCHANGED httpVars
    /\ UNCHANGED exportVars

NextRepeat == DetectRepeated

SpecRepeat == InitRepeat /\ [][NextRepeat]_vars

----------------------------------------------------------------------------
(* One request POST /analyze-surplus *)

InitSurplus ==
    /\ item_name \in Items
    /\ surplus_kg \in Quantities
    /\ gemini_response \in Responses
    /\ prescriptive = [ pending |-> TRUE ]
    /\ requested_item = ""
    /\ http_response = [ status_code |-> 0 ]
    /\ items_to_forecast = NoneValue
    /\ dataset_found = TRUE
    /\ forecaster = << >>
    /\ run_result = [ status |-> "pending" ]
    /\ forecast_results = << >>
    /\ current_stock_df = << >>
    /\ action_plans = Pending
    /\ safety_buffer_percent = 10
    /\ predicted_demand = 0
    /\ stock_levels = <<0, 0>>
    /\ detections = << >>
    /\ LoadIdle
    /\ ExportIdle

\* get_prescriptive_json is called only for a surplus above 0
AnalyzeSurplus ==
    /\ http_response.status_code = 0
    /\ prescriptive' = IF surplus_kg <= 0 THEN prescriptive
                       ELSE get_prescriptive_json(item_name, surplus_kg, gemini_response)
    /\ http_response' = analyze_surplus_with_ai(item_name, surplus_kg, gemini_response)
    /\ UNCHANGED <<item_name, surplus_kg, gemini_response, requested_item>>
    /\ UNCHANGED safety_buffer_percent
    /\ UNCHANGED detectVars
    /\ UNCHANGED assessVars
    /\ UNCHANGED runVars
    /\ UNCHANGED loadVars
    /\ UNCHANGED exportVars

NextSurplus == AnalyzeSurplus

SpecSurplus == InitSurplus /\ [][NextSurplus]_vars

----------------------------------------------------------------------------
(* One request GET /high-waste-risk *)

\* what the forecasting library may do for an item, a forecast of no usage
\* included
OutcomesWithZero == Outcomes \cup { <<"ok", 0, Step, 0 - Step>> }

InitHighWaste ==
    /\ requested_item = "high-waste-risk"
    /\ http_response = [ status_code |-> 0 ]
    /\ dataset_found \in BOOLEAN
    /\ current_stock_df \in (IF dataset_found THEN Datasets ELSE { << >> })
    /\ forecaster \in [Items -> OutcomesWithZero]
    /\ items_to_forecast = NoneValue
    /\ run_result = [ status |-> "pending" ]
    /\ safety_buffer_percent = 10
    /\ forecast_results = << >>
    /\ action_plans = Pending
    /\ predicted_demand = 0
    /\ stock_levels = <<0, 0>>
    /\ detections = << >>
    /\ LoadIdle
    /\ AiIdle
    /\ ExportIdle

GetHighWasteRiskItems ==
    /\ http_response.status_code = 0
    /\ run_result' = run_full_assessment(NoneValue, dataset_found, current_stock_df,
                                          OutcomeOf, 10)
    /\ http_response' = get_high_waste_risk_items(dataset_found, current_stock_df,
                                                  OutcomeOf)
    /\ UNCHANGED <<items_to_forecast, dataset_found, forecaster>>
    /\ UNCHANGED requested_item
    /\ UNCHANGED safety_buffer_percent
    /\ UNCHANGED detectVars
    /\ UNCHANGED assessVars
    /\ UNCHANGED loadVars
    /\ UNCHANGED aiVars
    /\ UNCHANGED exportVars

NextHighWaste == GetHighWasteRiskItems

SpecHighWaste == InitHighWaste /\ [][NextHighWaste]_vars

----------------------------------------------------------------------------
(* Two calls of detect_stockout_risk with the same demand and stock, each
   with a safety buffer of its own *)

InitBuffers ==
    /\ predicted_demand \in Demands
    /\ stock_levels \in { <<s, s>> : s \in Stocks }
    /\ safety_buffer_percent = 10
    /\ detections = << >>
    /\ forecast_results = << >>
    /\ current_stock_df = << >>
    /\ action_plans = Pending
    /\ items_to_forecast = NoneValue
    /\ dataset_found = TRUE
    /\ forecaster = << >>
    /\ run_result = [ status |-> "pending" ]
    /\ LoadIdle
    /\ AiIdle
    /\ HttpIdle
    /\ ExportIdle

\* safety_buffer_percent is the argument of the latest call
DetectWithBuffer ==
    /\ Len(detections) < 2
    /\ \E percent \in BufferPercents :
           /\ safety_buffer_percent' = percent
           /\ detections' = Append(detections,
                  detect_stockout_risk(predicted_demand,
                                       stock_levels[Len(detections) + 1], percent))
    /\ UNCHANGED <<predicted_demand, stock_levels>>
    /\ UNCHANGED assessVars
    /\ UNCHANGED runVars
    /\ UNCHANGED loadVars
    /\ UNCHANGED aiVars
    /\ UNCHANGED httpVars
    /\ UNCHANGED exportVars

NextBuffers == DetectWithBuffer

SpecBuffers == InitBuffers /\ [][NextBuffers]_vars

----------------------------------------------------------------------------
(* Claims about detect_stockout_risk, checked under SpecDetect *)

Abs(x) == IF x >= 0 THEN x ELSE -x

\* the alert levels ordered by severity
Severity(level) ==
    IF level = "NONE" THEN 0 ELSE IF level = "ALERT" THEN 1 ELSE 2

\* the exact values of the i-th call, from its arguments
ExactBuffer100 == predicted_demand * safety_buffer_percent
ExactRequired100 == 100 * predicted_demand + ExactBuffer100
ExactNeeded100(i) == Max(0, ExactRequired100 - 100 * stock_levels[i])

\* C1 as stated: the returned buffer_amount, demand_with_buffer and
\* units_needed are exactly predicted_demand * safety_buffer_percent / 100,
\* predicted_demand + buffer_amount and max(0, demand_with_buffer - current_stock).
C1_ExactValuesReturned ==
    \A i \in 1..Len(detections) :
        /\ 100 * detections[i].buffer_amount = ExactBuffer100
        /\ 100 * detections[i].demand_with_buffer = ExactRequired100
        /\ 100 * detections[i].units_needed = ExactNeeded100(i)

\* C1 amended: the three returned values are those exact values rounded to two
\* decimal places: each is a whole number of hundredths within 0.005 of
\* predicted_demand * safety_buffer_percent / 100, predicted_demand + that
\* buffer, and max(0, that sum - current_stock).
C1_RoundedValuesReturned ==
    \A i \in 1..Len(detections) :
        /\ detections[i].buffer_amount % Cent = 0
        /\ detections[i].demand_with_buffer % Cent = 0
        /\ detections[i].units_needed % Cent = 0
        /\ 2 * Abs(100 * detections[i].buffer_amount - ExactBuffer100) <= 100 * Cent
        /\ 2 * Abs(100 * detections[i].demand_with_buffer - ExactRequired100) <= 100 * Cent
        /\ 2 * Abs(100 * detections[i].units_needed - ExactNeeded100(i)) <= 100 * Cent

\* a call whose three exact values all differ from the values returned
C1_Witness ==
    /\ Len(detections) >= 1
    /\ 100 * detections[1].buffer_amount # ExactBuffer100
    /\ 100 * detections[1].demand_with_buffer # ExactRequired100
    /\ 100 * detections[1].units_needed # ExactNeeded100(1)
    /\ detections[1].units_needed > 0

\* C2: the alert level is NONE (no risk) when current_stock >= demand_with_buffer,
\* else ALERT (risk) when current_stock >= predicted_demand, else CRITICAL (risk);
\* has_stockout_risk is true exactly when the level is not NONE.
C2_AlertLevelByPriority ==
    \A i \in 1..Len(detections) :
        LET r == detections[i]
            stock == stock_levels[i]
        IN  /\ r.alert_level =
                   IF 100 * stock >= ExactRequired100 THEN "NONE"
                   ELSE IF stock >= predicted_demand THEN "ALERT"
                   ELSE "CRITICAL"
            /\ r.has_stockout_risk = (r.alert_level # "NONE")
            /\ r.has_stockout_risk \in BOOLEAN

\* stock exactly at the buffered demand (NONE) and stock exactly at the demand
\* with a positive buffer (ALERT)
C2_Witness ==
    /\ Len(detections) = 2
    /\ predicted_demand > 0
    /\ 100 * stock_levels[1] = ExactRequired100
    /\ detections[1].alert_level = "NONE"
    /\ stock_levels[2] = predicted_demand
    /\ detections[2].alert_level = "ALERT"

\* C3: with demand and buffer fixed, a call with more stock never returns a
\* more severe alert level than a call with less stock.
C3_MonotoneInStock ==
    (Len(detections) = 2 /\ stock_levels[1] <= stock_levels[2])
        => Severity(detections[2].alert_level) <= Severity(detections[1].alert_level)

\* a pair of calls that goes from CRITICAL to ALERT as the stock grows
C3_Witness ==
    /\ Len(detections) = 2
    /\ stock_levels[1] < stock_levels[2]
    /\ detections[1].alert_level = "CRITICAL"
    /\ detections[2].alert_level = "ALERT"

----------------------------------------------------------------------------
(* Claims about check_inventory_risk, checked under SpecAssess *)

\* the call has returned a list of action plans
Assessed == action_plans.kind = "list"

\* the plans returned
Plans == action_plans.list

\* the forecasts whose item has a row in the dataset, in order
Matched ==
    SelectSeq(forecast_results,
              LAMBDA f : \E k \in 1..Len(current_stock_df) :
                             current_stock_df[k].Item_Name = f.item_name)

\* the forecast the i-th plan was made from, and the stock it was made with
ForecastOf(i) == Matched[i]
StockOf(i) == LatestStock(current_stock_df, Matched[i].item_name)

\* current_stock / predicted_value > tenths / 10, the ratio being 0 when
\* predicted_value is not positive
WasteRatioOver(i, tenths) ==
    /\ ForecastOf(i).predicted_value > 0
    /\ 10 * StockOf(i) > tenths * ForecastOf(i).predicted_value

\* C4: every action plan's risk_score lies in [0, 100], and a plan is produced
\* for every forecast with a stock record, whatever the order of its bounds.
C4_RiskScoreInRange ==
    Assessed =>
        /\ Len(Plans) = Len(Matched)
        /\ \A i \in 1..Len(Plans) :
               Plans[i].risk_score >= 0 /\ Plans[i].risk_score <= 100

\* a plan for a forecast with lower_bound > upper_bound that reaches the
\* largest score
C4_Witness ==
    /\ Assessed
    /\ Len(Plans) = 1
    /\ Plans[1].lower_bound > Plans[1].upper_bound
    /\ Plans[1].lower_bound > Plans[1].predicted_value
    /\ Plans[1].risk_score = 90

\* C5: risk_score = min(100, stock-out component + waste component), the
\* components being 50 / 35 / 20 / 0 by current_stock against lower_bound,
\* predicted_value, upper_bound, and 40 / 25 / 15 / 0 by waste_ratio against
\* 2.0, 1.5, 1.3.
C5_RiskScoreComponents ==
    Assessed =>
        \A i \in 1..Len(Plans) :
            LET f == ForecastOf(i)
                stock == StockOf(i)
                stockout == IF stock < f.lower_bound THEN 50
                            ELSE IF stock < f.predicted_value THEN 35
                            ELSE IF stock < f.upper_bound THEN 20
                            ELSE 0
                waste == IF WasteRatioOver(i, 20) THEN 40
                         ELSE IF WasteRatioOver(i, 15) THEN 25
                         ELSE IF WasteRatioOver(i, 13) THEN 15
                         ELSE 0
            IN  Plans[i].risk_score = Min(100, stockout + waste)

\* stock below an (inverted) lower bound with a ratio between 1.3 and 1.5:
\* 50 + 15
C5_Witness ==
    /\ Assessed
    /\ Len(Plans) = 1
    /\ StockOf(1) < ForecastOf(1).lower_bound
    /\ WasteRatioOver(1, 13)
    /\ ~WasteRatioOver(1, 15)
    /\ Plans[1].risk_score = 65

\* C6: waste_risk is High when current_stock / predicted_value > 2.0, Moderate
\* when it is in (1.3, 2.0], Low otherwise, the ratio being exactly 0 when
\* predicted_value is not positive (so such an item is Low); the plan reports
\* the ratio to two decimals.
C6_WasteRatioAndRisk ==
    Assessed =>
        \A i \in 1..Len(Plans) :
            LET f == ForecastOf(i)
                plan == Plans[i]
            IN  /\ plan.waste_risk = IF WasteRatioOver(i, 20) THEN "High"
                                     ELSE IF WasteRatioOver(i, 13) THEN "Moderate"
                                     ELSE "Low"
                /\ f.predicted_value <= 0 =>
                       plan.waste_ratio = 0 /\ plan.waste_risk = "Low"
                /\ plan.waste_ratio % Cent = 0
                /\ f.predicted_value > 0 =>
                       2 * Abs((plan.waste_ratio \div Cent) * f.predicted_value
                               - 100 * StockOf(i)) <= f.predicted_value

\* an item with predicted_value = 0 and the largest stock
C6_Witness ==
    /\ Assessed
    /\ Len(Plans) = 1
    /\ ForecastOf(1).predicted_value = 0
    /\ StockOf(1) = Step * MaxStock
    /\ Plans[1].waste_ratio = 0
    /\ Plans[1].waste_risk = "Low"

\* C7: status is RESTOCK exactly when the detector reports has_stockout_risk,
\* OK otherwise; shortfall is the detector's units_needed when RESTOCK and 0
\* when OK.
C7_StatusAndShortfall ==
    Assessed =>
        \A i \in 1..Len(Plans) :
            LET plan == Plans[i]
            IN  /\ plan.status \in {"RESTOCK", "OK"}
                /\ (plan.status = "RESTOCK") = plan.stockout_detection.has_stockout_risk
                /\ plan.status = "RESTOCK" =>
                       plan.shortfall = plan.stockout_detection.units_needed
                /\ plan.status = "OK" => plan.shortfall = 0

\* a RESTOCK plan at level ALERT: the shortfall is positive although the stock
\* covers the predicted value
C7_Witness ==
    /\ Assessed
    /\ Len(Plans) = 1
    /\ Plans[1].status = "RESTOCK"
    /\ Plans[1].stockout_detection.alert_level = "ALERT"
    /\ Plans[1].shortfall > 0
    /\ StockOf(1) >= ForecastOf(1).predicted_value

\* C8: recommended_action is the CRITICAL text when alert_level is CRITICAL,
\* else the ALERT text when it is ALERT, else the high-waste text when
\* waste_risk is High, else the moderate-waste text when it is Moderate, else
\* the default text.
C8_RecommendedActionPriority ==
    Assessed =>
        \A i \in 1..Len(Plans) :
            LET plan == Plans[i]
                level == plan.stockout_detection.alert_level
            IN  plan.recommended_action[1] =
                    IF level = "CRITICAL" THEN "CRITICAL_RESTOCK_ALERT"
                    ELSE IF level = "ALERT" THEN "RESTOCK_ALERT"
                    ELSE IF plan.waste_risk = "High" THEN "Review stock management"
                    ELSE IF plan.waste_risk = "Moderate" THEN "Monitor usage patterns"
                    ELSE "Continue current inventory management practices."

\* an item that is at level ALERT and at Moderate waste risk at once
C8_Witness ==
    /\ Assessed
    /\ Len(Plans) = 1
    /\ Plans[1].stockout_detection.alert_level = "ALERT"
    /\ Plans[1].waste_risk = "Moderate"
    /\ Plans[1].recommended_action[1] = "RESTOCK_ALERT"

\* C9 as stated: surplus is exactly max(0, current_stock - upper_bound).
C9_ExactSurplus ==
    Assessed =>
        \A i \in 1..Len(Plans) :
            Plans[i].surplus = Max(0, StockOf(i) - ForecastOf(i).upper_bound)

\* C9 amended: surplus is max(0, current_stock - upper_bound) rounded to two
\* decimal places (a whole number of hundredths within 0.005 of it), whatever
\* the detector's result and the safety buffer.
C9_RoundedSurplus ==
    Assessed =>
        \A i \in 1..Len(Plans) :
            /\ Plans[i].surplus % Cent = 0
            /\ 2 * Abs(Plans[i].surplus
                       - Max(0, StockOf(i) - ForecastOf(i).upper_bound)) <= Cent

\* a positive surplus over an upper bound that lies above the predicted value
C9_Witness ==
    /\ Assessed
    /\ Len(Plans) = 1
    /\ ForecastOf(1).upper_bound > ForecastOf(1).predicted_value
    /\ ForecastOf(1).predicted_value > 0
    /\ Plans[1].surplus > 0
    /\ Plans[1].surplus # StockOf(1) - ForecastOf(1).upper_bound

----------------------------------------------------------------------------
(* Claims about the forecasts without a stock record, checked under SpecReport *)

\* in a whole run every forecast is of an item that has rows in the dataset,
\* so that the run never ends without action plans (checked under Spec)
RunAlwaysHasActionPlans ==
    run_result.status = "error" =>
        run_result.message[1] # "Failed to generate action plans"

\* the run has returned, for forecasts of which one at least has no stock record
ReportedWithUnmatched ==
    /\ run_result.status # "pending"
    /\ Len(Matched) < Len(forecast_results)

----------------------------------------------------------------------------
(* Claims about run_full_assessment, checked under Spec *)

\* the items the run forecasts
Requested ==
    IF items_to_forecast.kind = "None" THEN DefaultItems ELSE items_to_forecast.list

\* the item has rows in the dataset
HasHistory(item) == HasStockRecord(current_stock_df, item)

\* the item has rows and the forecasting library fits and predicts
Forecastable(item) == HasHistory(item) /\ OutcomeOf[item][1] = "ok"

\* the requested items that can and cannot be forecast, in the order requested
ForecastableItems == SelectSeq(Requested, Forecastable)
FailingItems == SelectSeq(Requested, LAMBDA i : ~Forecastable(i))

\* the run has returned and the dataset was found
Returned == run_result.status # "pending" /\ dataset_found

\* the item names of a list of plans
ItemNames(plans) == [ i \in 1..Len(plans) |-> plans[i].item_name ]

\* C11: a requested item without rows, or for which the forecaster raises
\* while fitting or while predicting, is recorded in forecasting_errors and
\* left out of the action plans, and the other requested items are forecast
\* and assessed.
C11_ForecastFailureNeverFatal ==
    (Returned /\ ForecastableItems # << >>) =>
        /\ run_result.status = "success"
        /\ run_result.data.forecasting_errors.list = FailingItems
        /\ ItemNames(run_result.data.action_plans) = ForecastableItems

\* the run has ended with the error that names the items that failed
NoForecastsError ==
    /\ run_result.status = "error"
    /\ run_result.message[1] = "Failed to generate forecasts for any items. Tried"
    /\ run_result.message[2] = Requested
    /\ run_result.error_details[2] = FailingItems

\* C12: the run ends with the error that names the failed items exactly when
\* no requested item was forecast, and goes on to the risk assessment (and so
\* to its success envelope) when one at least was.
C12_NoForecastsErrorIffNoneForecast ==
    Returned =>
        /\ NoForecastsError <=> (ForecastableItems = << >>)
        /\ ForecastableItems # << >> =>
               /\ run_result.status = "success"
               /\ ItemNames(run_result.data.action_plans) = ForecastableItems

----------------------------------------------------------------------------
(* Claims about the stock record used, checked under SpecAssess *)

\* the position in the dataset of the item's row with the most recent Date
MostRecentRow(item) ==
    CHOOSE k \in 1..Len(current_stock_df) :
        /\ current_stock_df[k].Item_Name = item
        /\ \A j \in 1..Len(current_stock_df) :
               current_stock_df[j].Item_Name = item =>
                   current_stock_df[j].Date <= current_stock_df[k].Date

\* C13: every plan is the assessment of its forecast against the
\* Current_Stock of the item's row with the most recent Date, wherever that
\* row stands in the dataset.
C13_LatestStockByDate ==
    Assessed =>
        /\ Len(Plans) = Len(Matched)
        /\ \A i \in 1..Len(Plans) :
               Plans[i] = ActionPlan(Matched[i],
                   current_stock_df[MostRecentRow(Matched[i].item_name)].Current_Stock,
                   safety_buffer_percent)

\* the item's most recent row stands first in the dataset, before an older row
\* with another stock level
C13_Witness ==
    /\ Assessed
    /\ Len(Plans) = 1
    /\ Len(current_stock_df) = 2
    /\ current_stock_df[1].Item_Name = Plans[1].item_name
    /\ current_stock_df[2].Item_Name = Plans[1].item_name
    /\ current_stock_df[1].Date > current_stock_df[2].Date
    /\ current_stock_df[1].Current_Stock # current_stock_df[2].Current_Stock
    /\ Plans[1].current_stock = Round2(current_stock_df[1].Current_Stock)

----------------------------------------------------------------------------
(* Claims about the summary statistics, checked under Spec *)

Succeeded == run_result.status = "success"

ReturnedPlans == run_result.data.action_plans
Summary == run_result.data.summary_statistics

\* the number of returned plans that satisfy the test
NumberOfPlans(Test(_)) ==
    Cardinality({ i \in 1..Len(ReturnedPlans) : Test(ReturnedPlans[i]) })

RECURSIVE TotalOf(_, _)
\* the sum of a field over the first n returned plans
TotalOf(field, n) ==
    IF n = 0 THEN 0 ELSE TotalOf(field, n - 1) + ReturnedPlans[n][field]

\* the fields of the summary that are not counts of plans at a level
OtherFields ==
    { "total_items_assessed", "items_requiring_restock", "average_risk_score",
      "total_shortfall", "safety_buffer_percent", "data_date_range" }

\* the levels, each with the field of a plan that holds it
AlertLevels == { <<"alert_level", l>> : l \in { "CRITICAL", "ALERT", "NONE" } }
RiskLevels == { <<"risk_level", l>> : l \in { "Critical", "Warning", "None" } }
WasteRiskLevels == { <<"waste_risk", l>> : l \in { "High", "Moderate", "Low" } }

PlansAtLevel(level) ==
    IF level[1] = "alert_level"
    THEN NumberOfPlans(LAMBDA p : p.stockout_detection.alert_level = level[2])
    ELSE NumberOfPlans(LAMBDA p : p[level[1]] = level[2])

\* the summary has, for each of the levels, a field of its own that counts
\* the plans at that level
HasCountForEach(levels) ==
    \E f \in [levels -> (DOMAIN Summary) \ OtherFields] :
        /\ \A l1, l2 \in levels : f[l1] = f[l2] => l1 = l2
        /\ \A l \in levels : Summary[f[l]] = PlansAtLevel(l)

\* C14 as stated: the summary holds the number of plans, the number of RESTOCK
\* plans, a count for each alert level, each risk level and each waste-risk
\* level, the mean of the risk scores and the sum of the shortfalls.
C14_CountForEveryLevel ==
    Succeeded =>
        /\ Summary.total_items_assessed = Len(ReturnedPlans)
        /\ Summary.items_requiring_restock = NumberOfPlans(LAMBDA p : p.status = "RESTOCK")
        /\ HasCountForEach(AlertLevels)
        /\ HasCountForEach(RiskLevels)
        /\ HasCountForEach(WasteRiskLevels)
        /\ Summary.average_risk_score * Len(ReturnedPlans)
               = 100 * Cent * TotalOf("risk_score", Len(ReturnedPlans))
        /\ Summary.total_shortfall = TotalOf("shortfall", Len(ReturnedPlans))

\* C14 amended: the summary holds the number of plans, the number of RESTOCK
\* plans, the numbers of plans at alert levels CRITICAL and ALERT, at risk
\* levels Critical and Warning and at waste risk High, and no other count;
\* average_risk_score is the mean of the risk scores rounded to two decimal
\* places and total_shortfall is the sum of the plans' shortfall.
C14_SummaryAggregates ==
    Succeeded =>
        /\ Summary.total_items_assessed = Len(ReturnedPlans)
        /\ Summary.items_requiring_restock = NumberOfPlans(LAMBDA p : p.status = "RESTOCK")
        /\ Summary.critical_stockout_alerts = PlansAtLevel(<<"alert_level", "CRITICAL">>)
        /\ Summary.restock_alerts = PlansAtLevel(<<"alert_level", "ALERT">>)
        /\ Summary.critical_risk_items = PlansAtLevel(<<"risk_level", "Critical">>)
        /\ Summary.warning_risk_items = PlansAtLevel(<<"risk_level", "Warning">>)
        /\ Summary.high_waste_risk_items = PlansAtLevel(<<"waste_risk", "High">>)
        /\ (DOMAIN Summary) \ OtherFields =
               { "critical_stockout_alerts", "restock_alerts", "critical_risk_items",
                 "warning_risk_items", "high_waste_risk_items" }
        /\ Summary.average_risk_score % Cent = 0
        /\ 2 * Abs(Summary.average_risk_score * Len(ReturnedPlans)
                   - 100 * Cent * TotalOf("risk_score", Len(ReturnedPlans)))
               <= Cent * Len(ReturnedPlans)
        /\ Summary.total_shortfall = TotalOf("shortfall", Len(ReturnedPlans))

\* three plans at different levels, whose mean risk score is not a whole
\* number of hundredths
C14_Witness ==
    /\ Succeeded
    /\ Len(ReturnedPlans) = 3
    /\ Summary.warning_risk_items > 0
    /\ Summary.high_waste_risk_items > 0
    /\ Summary.total_shortfall > 0
    /\ Summary.average_risk_score * 3 # 100 * Cent * TotalOf("risk_score", 3)

----------------------------------------------------------------------------
(* Claims about the envelope, checked under Spec *)

\* C15: whatever loading, forecasting and assessing do, the run returns an
\* envelope: status success with a message and data (action_plans,
\* summary_statistics, forecasting_errors) and no error_details, or status
\* error with a message and error_details and no data.
C15_AlwaysAnEnvelope ==
    run_result.status # "pending" =>
        \/ /\ run_result.status = "success"
           /\ DOMAIN run_result = { "status", "message", "data" }
           /\ run_result.message # << >>
           /\ DOMAIN run_result.data =
                  { "action_plans", "summary_statistics", "forecasting_errors" }
        \/ /\ run_result.status = "error"
           /\ DOMAIN run_result = { "status", "message", "error_details" }
           /\ run_result.message # << >>
           /\ run_result.error_details # << >>

\* a forecast raised and the run returned the error envelope of its handler
C15_Witness ==
    /\ dataset_found
    /\ \E k \in 1..Len(Requested) :
           HasHistory(Requested[k]) /\ OutcomeOf[Requested[k]][1] = "predict_raises"
    /\ run_result.status = "error"
    /\ run_result.message[1] = "An unexpected error occurred during assessment"

----------------------------------------------------------------------------
(* Claims about load_inventory_data, checked under SpecLoad *)

Loaded == load_result.kind # "pending"

\* the locations at which the file exists, and those at which it can be read
Existing == { k \in 1..Len(SearchPaths) : locations[k].exists }
Readable == { k \in 1..Len(SearchPaths) : locations[k].exists /\ locations[k].readable }

\* the first of a non-empty set of locations
First(S) == CHOOSE k \in S : \A j \in S : k <= j

----------------------------------------------------------------------------
(* Claims about get_prescriptive_json, checked under SpecAi *)

Answered == "pending" \notin DOMAIN prescriptive

\* the payload has the five fields, the metrics being an object
FullyPopulated ==
    /\ ResponseFields \subseteq DOMAIN prescriptive
    /\ DOMAIN prescriptive.impact_metrics = MetricKeys

\* C17 as stated: text that is not valid JSON gives the fallback payload with
\* the five fields, co2_saved_kg = qty * 2.5, meals_provided = qty * 10,
\* cost_saved_inr = qty * 250 and confidence_score = 0.
C17_FallbackExactMetrics ==
    (Answered /\ gemini_response.kind = "text") =>
        /\ FullyPopulated
        /\ 2 * prescriptive.impact_metrics.co2_saved_kg = 5 * surplus_kg
        /\ One * prescriptive.impact_metrics.meals_provided = 10 * surplus_kg
        /\ prescriptive.impact_metrics.cost_saved_inr = 250 * surplus_kg
        /\ prescriptive.confidence_score = <<0>>

\* C17 amended: text that is not valid JSON gives the fallback payload with
\* the five fields, co2_saved_kg and cost_saved_inr being qty * 2.5 and
\* qty * 250 rounded to two decimal places, meals_provided being qty * 10
\* without its fraction, and confidence_score = 0.
C17_FallbackRoundedMetrics ==
    (Answered /\ gemini_response.kind = "text") =>
        /\ FullyPopulated
        /\ prescriptive.impact_metrics.co2_saved_kg % Cent = 0
        /\ Abs(2 * prescriptive.impact_metrics.co2_saved_kg - 5 * surplus_kg) <= Cent
        /\ One * prescriptive.impact_metrics.meals_provided <= 10 * surplus_kg
        /\ One * (prescriptive.impact_metrics.meals_provided + 1) > 10 * surplus_kg
        /\ prescriptive.impact_metrics.cost_saved_inr % Cent = 0
        /\ 2 * Abs(prescriptive.impact_metrics.cost_saved_inr - 250 * surplus_kg) <= Cent
        /\ prescriptive.confidence_score = <<0>>

\* the fallback for 3.333 kg: 8.33 kg of CO2 and 33 meals
C17_Witness ==
    /\ Answered
    /\ gemini_response.kind = "text"
    /\ surplus_kg = Step
    /\ prescriptive.impact_metrics.co2_saved_kg = 833 * Cent
    /\ prescriptive.impact_metrics.meals_provided = 33

\* C18: a JSON object that lacks some of the five fields is returned with all
\* five, a placeholder standing for each missing one, and the call does not
\* fail.
C18_MissingFieldsFilled ==
    (Answered /\ gemini_response.kind = "object") =>
        /\ "error" \notin DOMAIN prescriptive
        /\ ResponseFields \subseteq DOMAIN prescriptive
        /\ \A f \in ResponseFields \ gemini_response.present :
               prescriptive[f] = MissingField(f)

\* C19: when the client raises or the output is malformed, the fallback
\* payload computed from the quantity is returned, with the error text in it.
C19_EveryFailureFallsBack ==
    (Answered /\ gemini_response.kind \in { "raises", "text" }) =>
        /\ "error" \in DOMAIN prescriptive
        /\ FullyPopulated
        /\ Abs(2 * prescriptive.impact_metrics.co2_saved_kg - 5 * surplus_kg) <= Cent
        /\ One * prescriptive.impact_metrics.meals_provided <= 10 * surplus_kg
        /\ One * (prescriptive.impact_metrics.meals_provided + 1) > 10 * surplus_kg
        /\ 2 * Abs(prescriptive.impact_metrics.cost_saved_inr - 250 * surplus_kg) <= Cent
        /\ prescriptive.confidence_score = <<0>>

----------------------------------------------------------------------------
(* Claims about GET /forecast/{item_name}, checked under SpecForecastRequest *)

Responded == http_response.status_code # 0

\* C20: the response is 404 when the requested item has no rows in the
\* dataset, and 500 only when loading or forecasting fails unexpectedly.
C20_NotFoundForItemWithoutData ==
    Responded =>
        /\ (dataset_found /\ ~HasStockRecord(current_stock_df, requested_item)) =>
               http_response.status_code = 404
        /\ http_response.status_code = 500 =>
               \/ ~dataset_found
               \/ /\ HasStockRecord(current_stock_df, requested_item)
                  /\ OutcomeOf[requested_item][1] = "predict_raises"

----------------------------------------------------------------------------
(* Claims about concurrent requests, checked under SpecExport *)

\* the report of the assessment run for a safety buffer over the dataset
OwnReport(safety_buffer) ==
    ExportDataFrame(run_full_assessment(NoneValue, dataset_found, current_stock_df,
                                        OutcomeOf, safety_buffer).data.action_plans)

\* the callers that were sent a report file
Downloaded ==
    { r \in Callers : /\ export_requests # << >>
                      /\ export_requests[r].pc = "done"
                      /\ export_requests[r].response.status_code = 200 }

\* C21: under any interleaving of concurrent requests, the report file a
\* caller of GET /export-assessment-csv receives is the one computed from
\* that caller's own safety_buffer_percent and the dataset, never one
\* written by another request.
C21_CallerGetsOwnReport ==
    \A r \in Downloaded :
        export_requests[r].response.content =
            OwnReport(export_requests[r].safety_buffer)

----------------------------------------------------------------------------
(* Claims about GET /stockout-risk, checked under SpecStockoutRequest *)

\* the request has been answered
StockoutAnswered == requested_item # "" /\ http_response.status_code # 0

NegativeQuery == predicted_demand < 0 \/ stock_levels[1] < 0

\* C22: the handler of GET /stockout-risk/{item_name} rejects a negative
\* predicted_demand or current_stock at the boundary: the request is refused
\* and detect_stockout_risk is not called with such a value.
C22_NegativeInputsRejected ==
    (StockoutAnswered /\ NegativeQuery) =>
        /\ detections = << >>
        /\ http_response.status_code >= 400

----------------------------------------------------------------------------
(* Claims about repeated calls of the detector, checked under SpecRepeat *)

----------------------------------------------------------------------------
(* Claims about POST /analyze-surplus, checked under SpecSurplus *)

\* the request has been answered
SurplusAnswered == item_name # "" /\ http_response.status_code # 0

\* C24: for surplus_kg > 0, when the AI service returns text that is not
\* JSON, POST /analyze-surplus answers with status 'success' and ai_analysis
\* set to the fallback payload (confidence_score 0, impact metrics computed
\* from surplus_kg), not with an HTTP 500.
C24_ParseFailureAnsweredWithFallback ==
    (SurplusAnswered /\ surplus_kg > 0 /\ gemini_response.kind = "text") =>
        /\ http_response.status_code = 200
        /\ http_response.content.status = "success"
        /\ http_response.content.ai_analysis = FallbackPayload(surplus_kg)
        /\ http_response.content.ai_analysis.confidence_score = <<0>>

----------------------------------------------------------------------------
(* Claims about GET /high-waste-risk, checked under SpecHighWaste *)

\* the request has been answered with a list of items
HighWasteAnswered ==
    requested_item = "high-waste-risk" /\ http_response.status_code = 200

\* current stock greater than twice the predicted usage, or waste_risk High
OverstockedOrHigh(plan) ==
    \/ LatestStock(current_stock_df, plan.item_name) > 2 * plan.predicted_value
    \/ plan.waste_risk = "High"

Overstocked(plan) ==
    /\ plan.predicted_value > 0
    /\ LatestStock(current_stock_df, plan.item_name) > 2 * plan.predicted_value

----------------------------------------------------------------------------
(* Claims about the safety buffer, checked under SpecBuffers *)

\* C26: for fixed non-negative predicted_demand and current_stock, the
\* detector returns CRITICAL for one safety_buffer_percent >= 0 if and only
\* if it returns CRITICAL for every other one, and with safety_buffer_percent
\* = 0 it never returns ALERT.
C26_BufferSeparatesNoneFromAlert ==
    /\ \A i, j \in 1..Len(detections) :
           (detections[i].alert_level = "CRITICAL")
               <=> (detections[j].alert_level = "CRITICAL")
    /\ \A i \in 1..Len(detections) :
           detections[i].buffer_percent = 0 => detections[i].alert_level # "ALERT"

\* stock equal to a positive demand: NONE without a buffer, ALERT with one
C26_Witness ==
    /\ Len(detections) = 2
    /\ predicted_demand > 0
    /\ stock_levels[1] = predicted_demand
    /\ detections[1].buffer_percent = 0
    /\ detections[1].alert_level = "NONE"
    /\ detections[2].buffer_percent > 0
    /\ detections[2].alert_level = "ALERT"

\* stock below the demand: CRITICAL without a buffer and with one
C26_WitnessCritical ==
    /\ Len(detections) = 2
    /\ detections[1].buffer_percent = 0
    /\ detections[2].buffer_percent > 0
    /\ detections[1].alert_level = "CRITICAL"
    /\ detections[2].alert_level = "CRITICAL"

----------------------------------------------------------------------------
(* Claims about the findings of one plan, checked under SpecAssess *)

\* C27: in every action plan, for any safety buffer and any forecast, an item
\* whose alert_level is CRITICAL has waste_risk Low, never Moderate or High,
\* so that the CRITICAL recommended_action hides no waste warning.
C27_CriticalImpliesLowWaste ==
    Assessed =>
        \A i \in 1..Len(Plans) :
            Plans[i].stockout_detection.alert_level = "CRITICAL"
                => Plans[i].waste_risk = "Low"

\* a CRITICAL plan at the largest buffer whose stock is above the lower bound
\* of the forecast, with the CRITICAL text as its action
C27_Witness ==
    /\ Assessed
    /\ Len(Plans) = 1
    /\ Plans[1].stockout_detection.alert_level = "CRITICAL"
    /\ Plans[1].stockout_detection.buffer_percent = 25 * MaxBufferStep
    /\ Plans[1].current_stock > 2 * Plans[1].lower_bound
    /\ Plans[1].lower_bound > 0
    /\ Plans[1].waste_risk = "Low"
    /\ Plans[1].recommended_action[1] = "CRITICAL_RESTOCK_ALERT"

----------------------------------------------------------------------------
(* Claims about the consistency of the summary, checked under Spec *)

\* the counts of the summary that the claim relates
RestockCounts ==
    { "items_requiring_restock", "critical_stockout_alerts", "restock_alerts",
      "critical_risk_items", "warning_risk_items" }

\* C28: in every successful run items_requiring_restock =
\* critical_stockout_alerts + restock_alerts, critical_risk_items =
\* critical_stockout_alerts, warning_risk_items = restock_alerts, and none of
\* these counts exceeds total_items_assessed.
C28_SummaryCountsConsistent ==
    Succeeded =>
        /\ Summary.items_requiring_restock =
               Summary.critical_stockout_alerts + Summary.restock_alerts
        /\ Summary.critical_risk_items = Summary.critical_stockout_alerts
        /\ Summary.warning_risk_items = Summary.restock_alerts
        /\ \A c \in RestockCounts :
               Summary[c] >= 0 /\ Summary[c] <= Summary.total_items_assessed

\* a run of three plans, one of them CRITICAL and two of them ALERT
C28_Witness ==
    /\ Succeeded
    /\ Summary.total_items_assessed = 3
    /\ Summary.critical_stockout_alerts = 1
    /\ Summary.restock_alerts = 2
    /\ Summary.items_requiring_restock = 3

----------------------------------------------------------------------------
(* Claims about the order of the run, checked under Spec *)

\* the items that have an action plan and the items reported as failed
PlannedItems == ItemNames(ReturnedPlans)
FailedItems == run_result.data.forecasting_errors.list

\* the elements of a list
Elements(list) == { list[k] : k \in 1..Len(list) }

\* C29: after a run that reaches the assessment, every requested entry is
\* either in forecasting_errors or has a forecast (and so a plan), never both;
\* the action plans and the failed items are in the order of the requested
\* items, one for each entry; and the plans and the failed items together
\* are no more than the requested entries.
C29_EntriesAccountedInOrder ==
    Succeeded =>
        /\ \A k \in 1..Len(Requested) :
               (Requested[k] \in Elements(PlannedItems))
                   # (Requested[k] \in Elements(FailedItems))
        /\ PlannedItems = SelectSeq(Requested, LAMBDA i : i \in Elements(PlannedItems))
        /\ FailedItems = SelectSeq(Requested, LAMBDA i : i \in Elements(FailedItems))
        /\ Len(PlannedItems) + Len(FailedItems) <= Len(Requested)

\* three entries: an item requested twice, with a plan for each of its
\* entries, around an entry that failed
C29_Witness ==
    /\ Succeeded
    /\ Len(Requested) = 3
    /\ Requested[1] = Requested[3]
    /\ PlannedItems = <<Requested[1], Requested[3]>>
    /\ FailedItems = <<Requested[2]>>

----------------------------------------------------------------------------
(* Claims about analysis_metrics, checked under SpecAssess *)

\* C30: in every action plan stock_out_risk_points is the stock-out component
\* (50, 35, 20 or 0) and waste_risk_points the waste component (40, 25, 15 or
\* 0) that were added to obtain risk_score, and the two sum to risk_score.
C30_MetricsReportComponents ==
    Assessed =>
        \A i \in 1..Len(Plans) :
            LET metrics == Plans[i].analysis_metrics
            IN  /\ metrics.stock_out_risk_points = StockOutPoints(StockOf(i), ForecastOf(i))
                /\ metrics.waste_risk_points = WastePoints(StockOf(i), ForecastOf(i))
                /\ metrics.stock_out_risk_points \in { 50, 35, 20, 0 }
                /\ metrics.waste_risk_points \in { 40, 25, 15, 0 }
                /\ metrics.stock_out_risk_points + metrics.waste_risk_points
                       = Plans[i].risk_score

====
